---- MODULE Spec2Model ----
(***************************************************************************)
(* TAN authentication orchestration of lib-fints-typescript-bun:           *)
(*   - the bank-answer classifier (client/utils/fintsUtils.ts),            *)
(*   - the per-session HTTP handlers (server/fints/handlers/*.ts),         *)
(*   - the server-side status poll (handlers/pollTanStatus),               *)
(*   - handlePushTanWithPolling (server/sync/tanHandler.ts).               *)
(*                                                                         *)
(* Strings are modelled as sequences of word tokens; String.includes is    *)
(* the contiguous-subsequence test Includes.  Time is counted in ticks.    *)
(***************************************************************************)
EXTENDS Integers, Sequences, FiniteSets, TLC

\* ------------------------------------------------------------------ bounds
MaxAttempts == 3      \* largest maxAttempts a poll is started with
MaxCallTicks == 2     \* longest duration of one bank call, in ticks
MaxTimeoutTicks == 3  \* largest timeoutMs a poll is started with, in ticks
MaxAnswers == 1       \* bank answers embedded in one failure
MaxAccounts == 2      \* accounts in the banking information
MaxSessions == 3      \* session identifiers randomUUID can return
MaxCookies == 2       \* cookies in one Cookie header
MaxBankAnswers == 2   \* bank answers in a list handed to the classifier

\* ------------------------------------------------------- program constants
STRONG_AUTHENTICATION_REQUIRED == 3060
TAN_REQUIRED == 3920
TAN_REQUEST_RECEIVED == 3955
DECOUPLED_TAN_AUTHENTICATION_PENDING == 3956
DECOUPLED_TAN_NOT_YET_APPROVED == 3076
DECOUPLED_TAN_CANCELLED == 3077
DECOUPLED_TAN_EXPIRED == 3078
DECOUPLED_TAN_SENT_TO_DEVICE == 3072
DECOUPLED_TAN_DEVICE_NOT_AVAILABLE == 3073
MESSAGE_CONTAINS_ERRORS == 9050
SUCCESS == 20
SUCCESS_PENDING == 10
INVALID_PIN == 9340
PIN_LOCKED == 9942
USER_LOCKED == 9210
PIN_TEMPORARILY_BLOCKED == 3938
LOGIN_FAILED == 9900

\* ------------------------------------------------------------------ strings
\* String.prototype.includes on token sequences.
Includes(s, pat) ==
    \E i \in 1..(Len(s) - Len(pat) + 1) : SubSeq(s, i, i + Len(pat) - 1) = pat

RECURSIVE Concat(_)
Concat(ss) == IF ss = <<>> THEN <<>> ELSE Head(ss) \o Concat(Tail(ss))

\* The decimal rendering of a response code, as one token.
CodeToken(c) ==
    CASE c = 3060 -> "3060" [] c = 3920 -> "3920" [] c = 3955 -> "3955"
      [] c = 3956 -> "3956" [] c = 3076 -> "3076" [] c = 3077 -> "3077"
      [] c = 3078 -> "3078" [] c = 3072 -> "3072" [] c = 3073 -> "3073"
      [] c = 9050 -> "9050" [] c = 20 -> "0020" [] c = 10 -> "0010"
      [] OTHER -> "code"

\* ------------------------------------------------------------- bank answers
Answer(c, t) == [code |-> c, text |-> t]

\* The bank answers the modelled bank can attach to a failed call, in the
\* order it lists them.
AnswerPool ==
    << Answer(3076, <<"Auftrag", "wurde", "noch", "nicht", "freigegeben">>),
      Answer(3956, <<"Starke", "Kundenauthentifizierung", "noch", "ausstehend">>),
      Answer(3072, <<"TAN", "an", "Geraet", "gesendet">>),
      Answer(3060, <<"Starke", "Kundenauthentifizierung", "erforderlich">>),
      Answer(3060, <<"Bitte", "beachten", "Sie", "die", "enthaltenen", "Warnungen/Hinweise">>),
      Answer(3077, <<"Auftrag", "abgebrochen">>),
      Answer(3078, <<"TAN", "abgelaufen">>),
      Answer(3073, <<"Geraet", "nicht", "verfuegbar">>),
      Answer(9050, <<"Nachricht", "enthaelt", "Fehler">>) >>

SeqsUpTo(S, n) == UNION { [1..k -> S] : k \in 1..n }

\* Failures of a BankingClient call: the bank answers the thrown error embeds,
\* up to MaxAnswers different ones.
Failures ==
    { [i \in 1..Len(f) |-> AnswerPool[f[i]]] :
        f \in { g \in SeqsUpTo(1..Len(AnswerPool), MaxAnswers) :
                   \A i \in 1..(Len(g) - 1) : g[i] < g[i + 1] } }

\* ----------------------------------------------------------- the classifier
\* An absent answer list (BankAnswer[] | undefined): a value no list of bank
\* answers equals.
undefined == <<[code |-> -1, text |-> <<"undefined">>]>>

\* A lookup that reads the first answer only.
hasBankAnswerCodeFirst(bankAnswers, code) ==
    /\ bankAnswers # undefined
    /\ Len(bankAnswers) > 0
    /\ bankAnswers[1].code = code

\* bankAnswers?.some((answer) => answer.code === code) ?? false
hasBankAnswerCode(bankAnswers, code) ==
    /\ bankAnswers # undefined
    /\ \E i \in 1..Len(bankAnswers) : bankAnswers[i].code = code

\* A classifier that reads every answer of code 3060 as pending.
isDecoupledTanPendingAny3060(bankAnswers) ==
    \/ hasBankAnswerCode(bankAnswers, DECOUPLED_TAN_AUTHENTICATION_PENDING)
    \/ hasBankAnswerCode(bankAnswers, DECOUPLED_TAN_NOT_YET_APPROVED)
    \/ hasBankAnswerCode(bankAnswers, DECOUPLED_TAN_SENT_TO_DEVICE)
    \/ hasBankAnswerCode(bankAnswers, 3060)

isDecoupledTanPending(bankAnswers) ==
    LET hasExplicitPendingCode ==
            \/ hasBankAnswerCode(bankAnswers, DECOUPLED_TAN_AUTHENTICATION_PENDING)
            \/ hasBankAnswerCode(bankAnswers, DECOUPLED_TAN_NOT_YET_APPROVED)
            \/ hasBankAnswerCode(bankAnswers, DECOUPLED_TAN_SENT_TO_DEVICE)
        isPendingAuth3060 ==
            \E i \in 1..Len(bankAnswers) :
                /\ bankAnswers[i].code = 3060
                /\ \/ Includes(bankAnswers[i].text, <<"Starke", "Kundenauthentifizierung">>)
                   \/ Includes(bankAnswers[i].text, <<"strong", "authentication">>)
                   \/ Includes(bankAnswers[i].text, <<"erforderlich">>)
    IN  IF bankAnswers = undefined THEN FALSE
        ELSE IF hasExplicitPendingCode THEN TRUE ELSE isPendingAuth3060

isDecoupledTanFailed(bankAnswers) ==
    \/ hasBankAnswerCode(bankAnswers, DECOUPLED_TAN_CANCELLED)
    \/ hasBankAnswerCode(bankAnswers, DECOUPLED_TAN_EXPIRED)
    \/ hasBankAnswerCode(bankAnswers, DECOUPLED_TAN_DEVICE_NOT_AVAILABLE)

isStrongAuthRequired(bankAnswers) ==
    hasBankAnswerCode(bankAnswers, STRONG_AUTHENTICATION_REQUIRED)

\* A challenge test that forgets the strong-authentication code.
isDecoupledTanChallengeOnlyPending(bankAnswers) == isDecoupledTanPending(bankAnswers)

isDecoupledTanChallenge(bankAnswers) ==
    IF isStrongAuthRequired(bankAnswers) THEN TRUE
    ELSE isDecoupledTanPending(bankAnswers)

isTanRequestReceived(bankAnswers) == hasBankAnswerCode(bankAnswers, TAN_REQUEST_RECEIVED)

isPinInvalid(bankAnswers) == hasBankAnswerCode(bankAnswers, INVALID_PIN)

isUserLocked(bankAnswers) ==
    \/ hasBankAnswerCode(bankAnswers, PIN_LOCKED)
    \/ hasBankAnswerCode(bankAnswers, USER_LOCKED)
    \/ hasBankAnswerCode(bankAnswers, PIN_TEMPORARILY_BLOCKED)
    \/ hasBankAnswerCode(bankAnswers, LOGIN_FAILED)

\* The messages of getBankErrorMessage, and its null.
null == <<"null">>
MsgBankTanFailed ==
    <<"Die", "TAN-Freigabe", "wurde", "abgebrochen", "oder", "ist", "abgelaufen.",
      "Bitte", "versuchen", "Sie", "es", "erneut.">>
MsgBankTanPending ==
    <<"Bitte", "geben", "Sie", "die", "Transaktion", "in", "Ihrer", "Banking-App",
      "frei", "und", "versuchen", "Sie", "es", "erneut.">>
MsgBankPinInvalid ==
    <<"Ungueltige", "PIN.", "Bitte", "ueberpruefen", "Sie", "Ihre", "Eingabe.">>
MsgBankTemporarilyBlocked ==
    <<"Ihr", "Zugang", "ist", "vorlaeufig", "gesperrt.", "Bitte", "heben", "Sie", "die",
      "PIN-Sperre", "ueber", "die", "Website", "oder", "App", "Ihrer", "Bank", "auf.">>
MsgBankLoginFailed ==
    <<"Anmeldung", "fehlgeschlagen.", "Bitte", "ueberpruefen", "Sie", "Ihre",
      "Zugangsdaten", "oder", "entsperren", "Sie", "Ihren", "Zugang.">>
MsgBankLocked ==
    <<"Ihr", "Zugang", "ist", "gesperrt.", "Bitte", "wenden", "Sie", "sich", "an",
      "Ihre", "Bank.">>
MsgBankTanRequestReceived ==
    <<"TAN-Anfrage", "wurde", "empfangen.", "Bitte", "geben", "Sie", "die",
      "Transaktion", "in", "Ihrer", "Banking-App", "frei.">>

\* answer.code >= 9000 || (answer.code >= 3000 && answer.code < 4000)
IsErrorAnswer(answer) ==
    answer.code >= 9000 \/ (answer.code >= 3000 /\ answer.code < 4000)

\* A search that returns the last error or warning answer.
lastErrorAnswerText(bankAnswers) ==
    LET at == { i \in 1..Len(bankAnswers) : IsErrorAnswer(bankAnswers[i]) } IN
    IF at = {} THEN null
    ELSE LET text == bankAnswers[CHOOSE i \in at : \A j \in at : j <= i].text IN
         IF text = <<>> THEN null ELSE text

\* bankAnswers.find(...)?.text || null
errorAnswerText(bankAnswers) ==
    LET at == { i \in 1..Len(bankAnswers) : IsErrorAnswer(bankAnswers[i]) } IN
    IF at = {} THEN null
    ELSE LET text == bankAnswers[CHOOSE i \in at : \A j \in at : i <= j].text IN
         IF text = <<>> THEN null ELSE text

\* A message lookup that tests for a pending approval first.
getBankErrorMessagePendingFirst(bankAnswers) ==
    IF bankAnswers = undefined \/ Len(bankAnswers) = 0 THEN null
    ELSE IF isDecoupledTanPending(bankAnswers) THEN MsgBankTanPending
    ELSE IF isDecoupledTanFailed(bankAnswers) THEN MsgBankTanFailed
    ELSE errorAnswerText(bankAnswers)

getBankErrorMessage(bankAnswers) ==
    IF bankAnswers = undefined \/ Len(bankAnswers) = 0 THEN null
    ELSE IF isDecoupledTanFailed(bankAnswers) THEN MsgBankTanFailed
    ELSE IF isDecoupledTanPending(bankAnswers) THEN MsgBankTanPending
    ELSE IF isPinInvalid(bankAnswers) THEN MsgBankPinInvalid
    ELSE IF isUserLocked(bankAnswers)
    THEN IF hasBankAnswerCode(bankAnswers, PIN_TEMPORARILY_BLOCKED)
         THEN MsgBankTemporarilyBlocked
         ELSE IF hasBankAnswerCode(bankAnswers, LOGIN_FAILED)
         THEN MsgBankLoginFailed
         ELSE MsgBankLocked
    ELSE IF isTanRequestReceived(bankAnswers) THEN MsgBankTanRequestReceived
    ELSE errorAnswerText(bankAnswers)

\* createAutomaticPushTanCallback(onPushTanDetected)(challenge, reference,
\* bankAnswers): what the callback returns or throws, and how often it called
\* onPushTanDetected (given: whether one was handed in).
MsgManualTanRequired ==
    <<"Manual", "TAN", "input", "required", "but", "automatic", "callback",
      "provided.", "Challenge:", "tanChallenge">>

\* A callback that answers every challenge with an empty TAN.
AutomaticPushTanCallbackAlways(given, bankAnswers) ==
    [kind |-> "return", tan |-> "", cancel |-> FALSE, error |-> <<>>,
     notified |-> IF given THEN 1 ELSE 0]

AutomaticPushTanCallback(given, bankAnswers) ==
    IF isDecoupledTanChallenge(bankAnswers)
    THEN [kind |-> "return", tan |-> "", cancel |-> FALSE, error |-> <<>>,
          notified |-> IF given THEN 1 ELSE 0]
    ELSE [kind |-> "throw", tan |-> "", cancel |-> FALSE, error |-> MsgManualTanRequired,
          notified |-> 0]

\* --------------------------------------------------------- thrown errors
\* The message of the error a failed BankingClient call throws: every
\* embedded bank answer rendered as its code followed by its text.
ErrorMessage(answers) ==
    Concat([i \in 1..Len(answers) |->
                <<CodeToken(answers[i].code)>> \o answers[i].text])

\* ------------------------------------------------ the handlers' own matching
\* The catch block of handlers/submitTan.ts: message patterns only.
isPendingApprovalBasic(errorMessage) ==
    \/ Includes(errorMessage, <<"noch", "nicht", "freigegeben">>)
    \/ Includes(errorMessage, <<"Auftrag", "wurde", "noch", "nicht">>)
    \/ Includes(errorMessage, <<"not", "yet", "approved">>)
    \/ Includes(errorMessage, <<"pending", "approval">>)

\* The pending test shared by the enhanced submitTan, pollTanStatus and
\* handlePushTanWithPolling.
isPendingApproval(errorMessage) ==
    \/ Includes(errorMessage, <<"noch", "nicht", "freigegeben">>)
    \/ Includes(errorMessage, <<"Auftrag", "wurde", "noch", "nicht">>)
    \/ Includes(errorMessage, <<"not", "yet", "approved">>)
    \/ Includes(errorMessage, <<"pending", "approval">>)
    \/ Includes(errorMessage, <<"TAN", "approval", "still", "pending">>)
    \/ Includes(errorMessage, <<"3076">>)
    \/ Includes(errorMessage, <<"3060">>)

\* The failure test of the enhanced submitTan and of pollTanStatus.
isTanFailed(errorMessage) ==
    \/ Includes(errorMessage, <<"3077">>)
    \/ Includes(errorMessage, <<"3078">>)
    \/ Includes(errorMessage, <<"abgebrochen">>)
    \/ Includes(errorMessage, <<"cancelled">>)
    \/ Includes(errorMessage, <<"expired">>)

\* The failure test of handlePushTanWithPolling (no "expired" pattern).
isTanFailedPolling(errorMessage) ==
    \/ Includes(errorMessage, <<"3077">>)
    \/ Includes(errorMessage, <<"3078">>)
    \/ Includes(errorMessage, <<"abgebrochen">>)
    \/ Includes(errorMessage, <<"cancelled">>)

\* ------------------------------------------------------------------ values
Ops == {"sync", "balance", "statements", "getAllBalances", "getAllStatements"}
PayloadOps == Ops \cup {"transfer"}      \* "transfer" is no operation at all
TanReferences == {"R1", "R2"}
TanValues == {"", "123456"}              \* "" is an absent TAN
AllAccounts == <<"A1", "A2", "A3", "A4">>
AccountNumbers == {"", "A1"}             \* "" is an absent accountNumber

\* config.bankingInformation: undefined, or a snapshot with its account list.
NoBankingInformation == [known |-> FALSE, bankAccounts |-> <<>>]
BankingInformations ==
    { [known |-> TRUE, bankAccounts |-> SubSeq(AllAccounts, 1, n)] : n \in 0..MaxAccounts }

\* session.pending: unset, or { op, accountNumber? }.
NoPending == [set |-> FALSE, op |-> "", accountNumber |-> ""]
Pending(op, acct) == [set |-> TRUE, op |-> op, accountNumber |-> acct]

\* What a BankingClient call does: it returns a result or throws.
Returned(success, hasData, requiresTan) ==
    [kind |-> "ok", success |-> success, hasData |-> hasData,
     requiresTan |-> requiresTan, answers |-> <<>>]
Thrown(answers) ==
    [kind |-> "throw", success |-> FALSE, hasData |-> FALSE,
     requiresTan |-> FALSE, answers |-> answers]
FinalResults == { Returned(s, d, FALSE) : s \in BOOLEAN, d \in BOOLEAN }
TanResults == { Returned(FALSE, FALSE, TRUE) }
Throws == { Thrown(f) : f \in Failures }
Outcomes == FinalResults \cup TanResults \cup Throws

\* ----------------------------------------------------------------- messages
MsgNoActiveSession == <<"No", "active", "session">>
MsgNoPendingTanOp == <<"No", "pending", "TAN", "op">>
MsgInvalidOperation == <<"Invalid", "operation">>
MsgNoAccountNumber(op) == <<"No", "account", "number", "for", op, "operation">>
MsgStillPending ==
    <<"TAN", "approval", "still", "pending.", "Please", "complete", "the",
      "approval", "in", "your", "banking", "app", "and", "try", "again.">>
MsgCancelledOrExpired ==
    <<"TAN", "approval", "was", "cancelled", "or", "expired.", "Please", "try", "again.">>
MsgNoAccounts == <<"No", "accounts", "found.", "Please", "synchronize", "first.">>
MsgNoBankingInformation == <<"Banking", "information", "not", "available">>
MsgUnknownAction == <<"Unknown", "action">>

\* ---------------------------------------------------------------- responses
NoData == [kind |-> "none", bankingInformation |-> NoBankingInformation, keys |-> {}]
BankingInformationData(bi) == [kind |-> "bankingInformation", bankingInformation |-> bi, keys |-> {}]
PayloadData == [kind |-> "payload", bankingInformation |-> NoBankingInformation, keys |-> {}]
MapData(keys) == [kind |-> "map", bankingInformation |-> NoBankingInformation, keys |-> keys]

NoResponse ==
    [status |-> 0, error |-> <<>>, isPending |-> FALSE, tanReference |-> "",
     success |-> "absent", requiresTan |-> FALSE, data |-> NoData, bankAnswers |-> <<>>]
ErrorResponse(status, msg) == [NoResponse EXCEPT !.status = status, !.error = msg]
Flag(b) == IF b THEN "true" ELSE "false"
\* JSON.stringify(res) of a result the BankingClient returned.
ResultResponse(out, ref) ==
    [NoResponse EXCEPT !.status = 200, !.success = Flag(out.success),
                       !.requiresTan = out.requiresTan,
                       !.tanReference = IF out.requiresTan THEN ref ELSE "",
                       !.data = IF out.hasData THEN PayloadData ELSE NoData]

Call(method, ref, tan) ==
    [method |-> method, accountNumber |-> "", tanReference |-> ref, tan |-> tan]
AccountCall(method, acct) ==
    [method |-> method, accountNumber |-> acct, tanReference |-> "", tan |-> ""]

\* -------------------------------------------------------------------- state
VARIABLES
    session,      \* the Session record: client, config.bankingInformation, pending
    last,         \* the handler step taken last
    req,          \* the payload of the request handled last
    resp,         \* the Response produced last
    calls,        \* the BankingClient calls made by the request handled last
    replies,      \* what the BankingClient did on each of those calls
    pollPc,       \* handlePollTanStatus: "idle", "loop" or "sleep"
    pollReq,      \* its payload
    pollAttempt,  \* its loop variable attempt
    pollElapsed,  \* ticks since it started
    pollSleeps,   \* inter-attempt sleeps it has taken
    pollCalls,    \* the BankingClient calls it has made
    pollLog,      \* what each of those calls did, as the loop saw it
    tanPc,        \* handlePushTanWithPolling: "none", "callback", "call", "sleep", "done"
    tanIn,        \* its arguments
    tanAttempt,   \* its loop variable attempt (0 outside the loop)
    tanElapsed,   \* Date.now() - startTime, in ticks
    tanSleeps,    \* inter-attempt sleeps it has taken
    tanCalls,     \* the submitTanFn calls it has made
    tanLog,       \* what each of those calls did, as the loop saw it
    tanReplied,   \* what the call answered last did
    tanOut,       \* how it ended: the promise it returns, settled
    cancelledAt,  \* the status calls made when the user cancelled; -1: no cancel
    second,       \* a second request of the session, handled during a poll
    sessions,     \* the session store: identifier -> Session
    manager,      \* what getOrCreateSession returned last
    poller,       \* the client's pollTanStatusAutomatically: its loop and how it ended
    classified,   \* a list of bank answers and what the classifier made of it
    syncAll,      \* syncAllStatements: its loop over the accounts and its result
    issued,       \* history: the tanReference of the last response with requiresTan
    inflight,     \* the action of the request in flight for each session identifier
    tanQueue      \* the TanQueue: its entries, handler and promises

vars == <<session, last, req, resp, calls, replies,
          pollPc, pollReq, pollAttempt, pollElapsed, pollSleeps, pollCalls, pollLog,
          tanPc, tanIn, tanAttempt, tanElapsed, tanSleeps, tanCalls, tanLog, tanReplied, tanOut,
          cancelledAt, second, sessions, manager, poller, classified, syncAll, issued,
          inflight, tanQueue>>
httpVars == <<session, last, req, resp, calls, replies,
              pollPc, pollReq, pollAttempt, pollElapsed, pollSleeps, pollCalls, pollLog>>
tanVars == <<tanPc, tanIn, tanAttempt, tanElapsed, tanSleeps, tanCalls, tanLog, tanReplied, tanOut>>
pollVars == <<pollPc, pollReq, pollAttempt, pollElapsed, pollSleeps, pollCalls, pollLog>>
storeVars == <<sessions, manager>>
moreVars == <<inflight, tanQueue>>
libVars == <<poller, classified, syncAll, issued, moreVars>>
sideVars == <<cancelledAt, second, sessions, manager, libVars>>

NoRequest == [op |-> "", tanReference |-> "", tan |-> "", accountNumber |-> "", maxAttempts |-> 0]
SubmitPayload(op, ref, tan) == [NoRequest EXCEPT !.op = op, !.tanReference = ref, !.tan = tan]

\* sessions.set(sid, { client: null, config: null })
NewSession ==
    [client |-> FALSE, bankingInformation |-> NoBankingInformation, pending |-> NoPending]

\* No second request is being handled.
NoSecond == [pc |-> "none", name |-> "", req |-> NoRequest, calls |-> <<>>, resp |-> NoResponse]

\* const sessions = new Map<string, Session>()
NoSessions == [sid \in {} |-> NewSession]
\* pollTanStatusAutomatically has not been called.
NoPoller ==
    [pc |-> "idle", operation |-> "", tanReference |-> "", accountNumber |-> "",
     maxAttempts |-> 0, attempt |-> 0, log |-> <<>>, result |-> NoResponse, error |-> <<>>]

\* syncAllStatements has not been called.
NoSyncResult == [returned |-> FALSE, success |-> FALSE, error |-> <<>>, statements |-> {}]
NoSync ==
    [pc |-> "none", tanCallback |-> FALSE, bankAnswers |-> <<>>, calls |-> <<>>,
     targetAccounts |-> <<>>, index |-> 0,
     statements |-> {}, errors |-> <<>>, log |-> <<>>, result |-> NoSyncResult]

\* No request of the session is in flight.
NoFlight == ""

\* private queue: Map<string, TanRequest> = new Map(), no handler set, no
\* promise created, no timer armed and no method called.
NoTanCall == [op |-> "", requestId |-> 0, value |-> "void"]
NoTanQueue ==
    [queue |-> {}, onTanRequired |-> "", promises |-> <<>>, timers |-> {},
     returned |-> NoTanCall]

\* No list has been handed to the classifier.
NoCallbackResult == [kind |-> "none", tan |-> "", cancel |-> FALSE, error |-> <<>>, notified |-> 0]
NoClassified ==
    [bankAnswers |-> undefined, pc |-> "none", pending |-> FALSE, failed |-> FALSE,
     challenge |-> FALSE, message |-> <<>>, onPushTanDetected |-> FALSE,
     result |-> NoCallbackResult]

\* No call of getOrCreateSession yet.
NoManager == [cookieHeader |-> <<>>, id |-> 0, session |-> NewSession, setCookie |-> 0]

\* The lib-fints client refreshes config.bankingInformation when a
\* synchronization completes successfully.
Refreshed(s, out, bi) ==
    IF out.kind = "ok" /\ out.success /\ ~out.requiresTan
    THEN [s EXCEPT !.bankingInformation = bi] ELSE s

Accounts(s) == s.bankingInformation.bankAccounts

\* ---------------------------------------------------------------- submitTan
\* The catch block of handlers/submitTan.ts.
SubmitTanCatchBasic(s, ref, answers) ==
    LET errorMessage == ErrorMessage(answers) IN
    IF isPendingApprovalBasic(errorMessage)
    THEN [session |-> s,
          resp |-> [ErrorResponse(202, MsgStillPending) EXCEPT
                        !.isPending = TRUE, !.tanReference = ref]]
    ELSE [session |-> [s EXCEPT !.pending = NoPending],
          resp |-> ErrorResponse(400, errorMessage)]

\* The catch block of the enhanced submitTan handler.
SubmitTanCatchEnhanced(s, ref, answers) ==
    LET errorMessage == ErrorMessage(answers) IN
    IF isPendingApproval(errorMessage)
    THEN [session |-> s,
          resp |-> [ErrorResponse(202, MsgStillPending) EXCEPT
                        !.isPending = TRUE, !.tanReference = ref,
                        !.bankAnswers = <<Answer(3076, <<"TAN", "approval", "still", "pending">>)>>]]
    ELSE IF isTanFailed(errorMessage)
    THEN [session |-> [s EXCEPT !.pending = NoPending],
          resp |-> [ErrorResponse(400, MsgCancelledOrExpired) EXCEPT
                        !.bankAnswers = <<Answer(3077, <<"TAN", "approval", "cancelled", "or", "expired">>)>>]]
    ELSE [session |-> [s EXCEPT !.pending = NoPending],
          resp |-> ErrorResponse(400, errorMessage)]

SubmitTanCatch(enhanced, s, ref, answers) ==
    IF enhanced THEN SubmitTanCatchEnhanced(s, ref, answers)
    ELSE SubmitTanCatchBasic(s, ref, answers)

WithTanMethod(op) ==
    CASE op = "sync" -> "synchronizeWithTan"
      [] op \in {"balance", "getAllBalances"} -> "getAccountBalanceWithTan"
      [] OTHER -> "getAccountStatementsWithTan"

\* The batch branches: one call per known account, each in its own try/catch.
BatchKeys(accounts, outs) ==
    { accounts[i] : i \in { j \in 1..Len(accounts) : outs[j].kind = "ok" /\ outs[j].hasData } }

\* A pending check that forgets to compare the operation.
NoPendingTanOpAnyOp(s, op) == ~s.pending.set

\* The pending check of handleSubmitTan.
NoPendingTanOp(s, op) == ~s.pending.set \/ s.pending.op # op

\* An end of the try block that forgets session.pending = undefined.
SubmitTanSuccessKeepsPending(s, op, out, ref) ==
    [session |-> s,
     resp |-> IF op = "sync" /\ out.success /\ s.bankingInformation.known
              THEN [ResultResponse(out, ref) EXCEPT
                        !.data = BankingInformationData(s.bankingInformation)]
              ELSE ResultResponse(out, ref)]

\* The end of handleSubmitTan's try block for an operation with one resumption
\* call that returned.
SubmitTanSuccess(s, op, out, ref) ==
    [session |-> [s EXCEPT !.pending = NoPending],
     resp |-> IF op = "sync" /\ out.success /\ s.bankingInformation.known
              THEN [ResultResponse(out, ref) EXCEPT
                        !.data = BankingInformationData(s.bankingInformation)]
              ELSE ResultResponse(out, ref)]

\* handleSubmitTan(session, payload): the session and response it leaves and
\* the BankingClient calls it makes.  out is what the single resumption call
\* does, outs what the call for each account of a batch does, bi the banking
\* information a completed synchronization delivers.
SubmitTan(enhanced, s, op, ref, tan, out, outs, bi) ==
    LET call == Call(WithTanMethod(op), ref, tan)
        none == <<>>
    IN
    IF ~s.client
    THEN [session |-> s, resp |-> ErrorResponse(400, MsgNoActiveSession), calls |-> none]
    ELSE IF NoPendingTanOp(s, op)
    THEN [session |-> s, resp |-> ErrorResponse(400, MsgNoPendingTanOp), calls |-> none]
    ELSE IF op = "sync"
    THEN IF out.kind = "ok"
         THEN SubmitTanSuccess(Refreshed(s, out, bi), op, out, ref) @@ [calls |-> <<call>>]
         ELSE SubmitTanCatch(enhanced, s, ref, out.answers) @@ [calls |-> <<call>>]
    ELSE IF op \in {"balance", "statements"}
    THEN IF s.pending.accountNumber = ""
         THEN [session |-> s, resp |-> ErrorResponse(400, MsgNoAccountNumber(op)), calls |-> none]
         ELSE IF out.kind = "ok"
         THEN SubmitTanSuccess(s, op, out, ref) @@ [calls |-> <<call>>]
         ELSE SubmitTanCatch(enhanced, s, ref, out.answers) @@ [calls |-> <<call>>]
    ELSE IF op \in {"getAllBalances", "getAllStatements"}
    THEN [session |-> [s EXCEPT !.pending = NoPending],
          resp |-> [NoResponse EXCEPT !.status = 200, !.success = "true",
                                      !.data = MapData(BatchKeys(Accounts(s), outs))],
          calls |-> [i \in 1..Len(Accounts(s)) |-> call]]
    ELSE [session |-> s, resp |-> ErrorResponse(400, MsgInvalidOperation), calls |-> none]

\* ----------------------------------------------------------- the dispatcher
\* handleStartSession: a fresh client and config, then the initial synchronize.
StartSession(s, out, ref, bi) ==
    LET s0 == [s EXCEPT !.client = TRUE, !.bankingInformation = NoBankingInformation]
        s1 == Refreshed(s0, out, bi)
        info == IF s1.bankingInformation.known
                THEN BankingInformationData(s1.bankingInformation) ELSE NoData
        sync == <<AccountCall("synchronize", "")>>
    IN
    IF out.kind = "throw"
    THEN [session |-> s0,
          resp |-> [ErrorResponse(200, ErrorMessage(out.answers)) EXCEPT !.data = NoData],
          calls |-> sync]
    ELSE IF out.requiresTan
    THEN [session |-> [s1 EXCEPT !.pending = Pending("sync", "")],
          resp |-> [NoResponse EXCEPT !.status = 200, !.data = info,
                                      !.requiresTan = TRUE, !.tanReference = ref],
          calls |-> sync]
    ELSE [session |-> s1,
          resp |-> [NoResponse EXCEPT !.status = 200, !.data = info],
          calls |-> sync]

\* handleSynchronize; an error it throws is answered by handleFinTSRequest.
Synchronize(s, out, ref, bi) ==
    LET s1 == Refreshed(s, out, bi)
        sync == <<AccountCall("synchronize", "")>>
    IN
    IF ~s.client
    THEN [session |-> s, resp |-> ErrorResponse(400, MsgNoActiveSession), calls |-> <<>>]
    ELSE IF out.kind = "throw"
    THEN [session |-> s, resp |-> ErrorResponse(500, ErrorMessage(out.answers)), calls |-> sync]
    ELSE IF out.requiresTan
    THEN [session |-> [s1 EXCEPT !.pending = Pending("sync", "")],
          resp |-> ResultResponse(out, ref), calls |-> sync]
    ELSE IF ~s1.bankingInformation.known
    THEN [session |-> s1, resp |-> ErrorResponse(500, MsgNoBankingInformation), calls |-> sync]
    ELSE [session |-> s1,
          resp |-> [ResultResponse(out, ref) EXCEPT
                        !.data = BankingInformationData(s1.bankingInformation)],
          calls |-> sync]

\* handleGetAccountBalance and handleGetAccountStatements.
AccountMethod(op) ==
    IF op \in {"balance", "getAllBalances"} THEN "getAccountBalance"
    ELSE "getAccountStatements"

GetForAccount(op, s, acct, out, ref) ==
    LET call == <<AccountCall(AccountMethod(op), acct)>> IN
    IF ~s.client
    THEN [session |-> s, resp |-> ErrorResponse(400, MsgNoActiveSession), calls |-> <<>>]
    ELSE IF out.kind = "throw"
    THEN [session |-> s, resp |-> ErrorResponse(500, ErrorMessage(out.answers)), calls |-> call]
    ELSE IF out.requiresTan
    THEN [session |-> [s EXCEPT !.pending = Pending(op, acct)],
          resp |-> ResultResponse(out, ref), calls |-> call]
    ELSE [session |-> s, resp |-> ResultResponse(out, ref), calls |-> call]

\* A batch handler that goes on to the other accounts although the first
\* account's call asked for a TAN.
GetAllFetchesAll(op, s, first, outs, ref) ==
    LET accounts == Accounts(s)
        firstCall == <<AccountCall(AccountMethod(op), accounts[1])>>
        allCalls == firstCall \o
                    [i \in 1..Len(accounts) |-> AccountCall(AccountMethod(op), accounts[i])]
    IN
    IF ~s.client
    THEN [session |-> s, resp |-> ErrorResponse(400, MsgNoActiveSession), calls |-> <<>>]
    ELSE IF Len(accounts) = 0
    THEN [session |-> s, resp |-> ErrorResponse(400, MsgNoAccounts), calls |-> <<>>]
    ELSE IF first.kind = "throw"
    THEN [session |-> s, resp |-> ErrorResponse(400, ErrorMessage(first.answers)), calls |-> firstCall]
    ELSE IF first.requiresTan
    THEN [session |-> [s EXCEPT !.pending = Pending(op, "")],
          resp |-> ResultResponse(first, ref), calls |-> allCalls]
    ELSE [session |-> s,
          resp |-> [NoResponse EXCEPT !.status = 200, !.success = "true",
                                      !.data = MapData(BatchKeys(accounts, outs))],
          calls |-> allCalls]

\* handleGetAllBalances and handleGetAllStatements: the first account decides
\* whether a TAN is needed; otherwise every account is fetched.
GetAll(op, s, first, outs, ref) ==
    LET accounts == Accounts(s)
        firstCall == <<AccountCall(AccountMethod(op), accounts[1])>>
    IN
    IF ~s.client
    THEN [session |-> s, resp |-> ErrorResponse(400, MsgNoActiveSession), calls |-> <<>>]
    ELSE IF Len(accounts) = 0
    THEN [session |-> s, resp |-> ErrorResponse(400, MsgNoAccounts), calls |-> <<>>]
    ELSE IF first.kind = "throw"
    THEN [session |-> s, resp |-> ErrorResponse(400, ErrorMessage(first.answers)), calls |-> firstCall]
    ELSE IF first.requiresTan
    THEN [session |-> [s EXCEPT !.pending = Pending(op, "")],
          resp |-> ResultResponse(first, ref), calls |-> firstCall]
    ELSE [session |-> s,
          resp |-> [NoResponse EXCEPT !.status = 200, !.success = "true",
                                      !.data = MapData(BatchKeys(accounts, outs))],
          calls |-> firstCall \o
                    [i \in 1..Len(accounts) |-> AccountCall(AccountMethod(op), accounts[i])]]

\* A selectTan handler without its check of session.client.
SelectTanUnchecked(s, tanMethodId, tanMediaName) ==
    [session |-> s,
     resp |-> [NoResponse EXCEPT
                   !.status = 200,
                   !.data = IF s.bankingInformation.known
                            THEN BankingInformationData(s.bankingInformation) ELSE NoData],
     calls |-> (IF tanMethodId # 0 THEN <<AccountCall("selectTanMethod", "")>> ELSE <<>>)
               \o (IF tanMediaName # "" THEN <<AccountCall("selectTanMedia", "")>> ELSE <<>>)]

\* handleSelectTan: selects the TAN method and medium the payload names (0 and
\* "" stand for an absent tanMethodId and tanMediaName), and answers with the
\* banking information of the session.
SelectTan(s, tanMethodId, tanMediaName) ==
    IF ~s.client
    THEN [session |-> s, resp |-> ErrorResponse(400, MsgNoActiveSession), calls |-> <<>>]
    ELSE [session |-> s,
          resp |-> [NoResponse EXCEPT
                        !.status = 200,
                        !.data = IF s.bankingInformation.known
                                 THEN BankingInformationData(s.bankingInformation) ELSE NoData],
          calls |-> (IF tanMethodId # 0 THEN <<AccountCall("selectTanMethod", "")>> ELSE <<>>)
                    \o (IF tanMediaName # "" THEN <<AccountCall("selectTanMedia", "")>> ELSE <<>>)]

\* handleFinTSRequest for an action its switch has no case for: the check of
\* session.client, then the default branch.
UnknownAction(s) ==
    IF ~s.client
    THEN [session |-> s, resp |-> ErrorResponse(400, MsgNoActiveSession), calls |-> <<>>]
    ELSE [session |-> s, resp |-> ErrorResponse(400, MsgUnknownAction), calls |-> <<>>]

\* -------------------------------------------------- handlePushTanWithPolling
\* tanCallback has not returned.
NoTanResult == [returned |-> FALSE, tan |-> "", cancel |-> FALSE]
NoTanArguments ==
    [bankAnswers |-> <<>>, tanReference |-> "", maxAttempts |-> 0, timeoutMs |-> 0,
     tanResult |-> NoTanResult]
NotSettled == [kind |-> "none", error |-> <<>>, reply |-> Returned(FALSE, FALSE, FALSE)]
Resolved(out) == [kind |-> "return", error |-> <<>>, reply |-> out]
Rejected(msg) == [kind |-> "throw", error |-> msg, reply |-> Returned(FALSE, FALSE, FALSE)]

MsgCancelledByUser == <<"TAN", "authentication", "cancelled", "by", "user">>
MsgPushTanTimeout == <<"PushTAN", "timeout", "after", "timeoutMs/1000", "seconds">>
MsgPushTanCancelled ==
    <<"PushTAN", "was", "cancelled", "or", "expired", "in", "the", "banking", "app">>
MsgPushTanNotReceived ==
    <<"PushTAN", "approval", "not", "received", "after", "maxAttempts", "HKTAN",
      "status", "requests.", "Please", "check", "your", "banking", "app", "and",
      "try", "again.">>

\* The bank answers of the challenges handed to handlePushTanWithPolling;
\* <<>> is an undefined list.
ChallengeAnswers ==
    { <<>>,
      <<Answer(3920, <<"TAN", "erforderlich">>)>>,
      <<Answer(3060, <<"Bitte", "beachten", "Sie", "die", "enthaltenen", "Warnungen/Hinweise">>)>>,
      <<Answer(3076, <<"Auftrag", "wurde", "noch", "nicht", "freigegeben">>)>> }

\* ------------------------------------------------------------------ actions
BaseInit ==
    /\ session = NewSession
    /\ last = "idle"
    /\ req = NoRequest
    /\ resp = NoResponse
    /\ calls = <<>>
    /\ replies = <<>>
    /\ pollPc = "idle"
    /\ pollReq = NoRequest
    /\ pollAttempt = 0
    /\ pollElapsed = 0
    /\ pollSleeps = 0
    /\ pollCalls = <<>>
    /\ pollLog = <<>>
    /\ tanPc = "none"
    /\ tanIn = NoTanArguments
    /\ tanAttempt = 0
    /\ tanElapsed = 0
    /\ tanSleeps = 0
    /\ tanCalls = <<>>
    /\ tanLog = <<>>
    /\ tanReplied = <<>>
    /\ tanOut = NotSettled
    /\ cancelledAt = -1
    /\ second = NoSecond
    /\ sessions = NoSessions
    /\ manager = NoManager
    /\ poller = NoPoller
    /\ syncAll = NoSync
    /\ issued = ""
    /\ inflight = [sid \in 1..MaxSessions |-> NoFlight]
    /\ tanQueue = NoTanQueue

Init ==
    /\ BaseInit
    /\ classified = NoClassified

\* The replies to the calls a run made: all is what the bank would do on each
\* call the run could make, in order.
HandledRequest(name, payload, r, all) ==
    /\ session' = r.session
    /\ resp' = r.resp
    /\ calls' = r.calls
    /\ replies' = SubSeq(all, 1, Len(r.calls))
    /\ UNCHANGED pollVars
    /\ last' = name
    /\ req' = payload

Handled(name, payload, r, all) ==
    /\ UNCHANGED <<tanVars, sideVars>>
    /\ HandledRequest(name, payload, r, all)

\* Requests are handled one at a time, and not while the sync module polls.
Ready == last = "idle" /\ tanPc = "none"

\* The inputs a handler run can depend on; an input the run never reads is
\* fixed, so that each distinct run is enumerated once.
AnyOf(S, relevant) == IF relevant THEN S ELSE {CHOOSE x \in S : TRUE}
RefsFor(out) == AnyOf(TanReferences, out.kind = "ok" /\ out.requiresTan)
InfoFor(out) ==
    AnyOf(BankingInformations, out.kind = "ok" /\ out.success /\ ~out.requiresTan)
\* A batch loop reads of each reply only whether it threw and whether it
\* carries data; two failures stand for all.
BatchReplies ==
    { Returned(TRUE, TRUE, FALSE), Returned(TRUE, FALSE, FALSE),
      Thrown(<<Answer(3076, <<"Auftrag", "wurde", "noch", "nicht", "freigegeben">>)>>),
      Thrown(<<Answer(9050, <<"Nachricht", "enthaelt", "Fehler">>)>>) }
BatchOutcomes(s, relevant) ==
    IF relevant THEN [1..Len(Accounts(s)) -> BatchReplies]
    ELSE {[i \in 1..Len(Accounts(s)) |-> Returned(TRUE, TRUE, FALSE)]}
Resumes(s, op) == s.client /\ s.pending.set /\ s.pending.op = op
SingleOps == {"sync", "balance", "statements"}
BatchOps == {"getAllBalances", "getAllStatements"}

handleStartSession ==
    Ready /\
    \E out \in Outcomes : \E ref \in RefsFor(out), bi \in InfoFor(out) :
        /\ Handled("startSession", NoRequest, StartSession(session, out, ref, bi), <<out>>)

handleSynchronize ==
    Ready /\
    \E out \in AnyOf(Outcomes, session.client) : \E ref \in RefsFor(out), bi \in InfoFor(out) :
        /\ Handled("synchronize", NoRequest, Synchronize(session, out, ref, bi), <<out>>)

handleGetAccountBalance ==
    Ready /\
    \E acct \in AccountNumbers, out \in AnyOf(Outcomes, session.client) : \E ref \in RefsFor(out) :
        /\ Handled("getAccountBalance", [NoRequest EXCEPT !.accountNumber = acct],
                   GetForAccount("balance", session, acct, out, ref), <<out>>)

handleGetAccountStatements ==
    Ready /\
    \E acct \in AccountNumbers, out \in AnyOf(Outcomes, session.client) : \E ref \in RefsFor(out) :
        /\ Handled("getAccountStatements", [NoRequest EXCEPT !.accountNumber = acct],
                   GetForAccount("statements", session, acct, out, ref), <<out>>)

handleGetAllBalances ==
    Ready /\
    \E first \in AnyOf(Outcomes, session.client /\ Len(Accounts(session)) > 0) :
    \E outs \in BatchOutcomes(session, session.client /\ first.kind = "ok" /\ ~first.requiresTan),
       ref \in RefsFor(first) :
        /\ Handled("getAllBalances", NoRequest,
                   GetAll("getAllBalances", session, first, outs, ref), <<first>> \o outs)

handleGetAllStatements ==
    Ready /\
    \E first \in AnyOf(Outcomes, session.client /\ Len(Accounts(session)) > 0) :
    \E outs \in BatchOutcomes(session, session.client /\ first.kind = "ok" /\ ~first.requiresTan),
       ref \in RefsFor(first) :
        /\ Handled("getAllStatements", NoRequest,
                   GetAll("getAllStatements", session, first, outs, ref), <<first>> \o outs)

TanMethodIds == {0, 942}              \* 0 is an absent tanMethodId
TanMediaNames == {"", "Handy"}        \* "" is an absent tanMediaName
\* selectTanMethod and selectTanMedia return nothing.
Selected == Returned(TRUE, FALSE, FALSE)

handleSelectTan ==
    Ready /\
    \E tanMethodId \in AnyOf(TanMethodIds, session.client),
       tanMediaName \in AnyOf(TanMediaNames, session.client) :
        /\ Handled("selectTan", NoRequest,
                   SelectTan(session, tanMethodId, tanMediaName), <<Selected, Selected>>)

SubmitTanRuns(name, enhanced) ==
    \E op \in PayloadOps, ref \in TanReferences, tan \in TanValues :
    \E out \in AnyOf(Outcomes, Resumes(session, op) /\ op \in SingleOps) :
    \E outs \in BatchOutcomes(session, Resumes(session, op) /\ op \in BatchOps),
       bi \in AnyOf(InfoFor(out), op = "sync") :
        /\ Handled(name, SubmitPayload(op, ref, tan),
                   SubmitTan(enhanced, session, op, ref, tan, out, outs, bi),
                   IF op \in BatchOps THEN outs ELSE <<out>>)

\* handlers/submitTan.ts, the handler the router dispatches submitTan to.
handleSubmitTan ==
    /\ Ready
    /\ SubmitTanRuns("submitTan", FALSE)

\* The enhanced submitTan handler (decoupled status checking in its catch).
handleSubmitTanEnhanced ==
    /\ Ready
    /\ SubmitTanRuns("submitTanEnhanced", TRUE)

\* ------------------------------------------------------------ pollTanStatus
IntervalTicks == 1     \* intervalMs, in ticks
\* How long a bank call (or the TAN callback) takes: no time, or MaxCallTicks.
CallTicks == {0, MaxCallTicks}
MsgPollFieldsRequired == <<"tanReference", "and", "operation", "are", "required">>
MsgNoMatchingPending ==
    <<"No", "matching", "pending", "operation", "for", "TAN", "polling">>
MsgPollCancelledOrExpired == <<"TAN", "approval", "was", "cancelled", "or", "expired">>
MsgPollFailed(msg) == <<"TAN", "polling", "failed:">> \o msg
MsgPollNotReceived ==
    <<"PushTAN", "approval", "not", "received", "after", "maxAttempts", "status",
      "requests.", "Please", "check", "your", "banking", "app", "and", "try", "again.">>
MsgAccountRequired(op) == <<"Account", "number", "required", "for", op, "operation">>
MsgNoAccountsAvailable(op) == <<"No", "accounts", "available", "for", op, "operation">>

PollPayload(op, ref, acct, n) ==
    [NoRequest EXCEPT !.op = op, !.tanReference = ref, !.accountNumber = acct,
                      !.maxAttempts = n]

\* A catch block that retries whatever is not a cancellation.
PollKindRetriesAll(errorMessage) ==
    IF isTanFailed(errorMessage) THEN "failed" ELSE "pending"

\* How the loop's catch block reads an error message.
PollKind(errorMessage) ==
    IF isPendingApproval(errorMessage) THEN "pending"
    ELSE IF isTanFailed(errorMessage) THEN "failed"
    ELSE "other"

\* The switch of one iteration up to its BankingClient call: the message of
\* the error it throws before calling, or <<>> when it reaches the call.
PollPrecheck(s, p) ==
    IF p.op \in {"balance", "statements"} /\ p.accountNumber = ""
    THEN MsgAccountRequired(p.op)
    ELSE IF p.op = "getAllBalances" /\ Len(Accounts(s)) = 0
    THEN MsgNoAccountsAvailable("balance")
    ELSE IF p.op = "getAllStatements" /\ Len(Accounts(s)) = 0
    THEN MsgNoAccountsAvailable("statements")
    ELSE IF p.op \notin Ops
    THEN <<"Unknown", "operation:", p.op>>
    ELSE <<>>

\* The catch block of one iteration for an error that is not "pending".
PollHardFailure(kind, errorMessage) ==
    IF kind = "failed"
    THEN [ErrorResponse(400, MsgPollCancelledOrExpired) EXCEPT
              !.success = "false",
              !.bankAnswers = <<Answer(3077, <<"TAN", "approval", "cancelled", "or", "expired">>)>>]
    ELSE [ErrorResponse(400, MsgPollFailed(errorMessage)) EXCEPT !.success = "false"]

\* A loop that answers its exhaustion like a hard failure.
PollTimeoutResponseAs400 ==
    [ErrorResponse(400, MsgPollNotReceived) EXCEPT
         !.success = "false", !.isPending = TRUE,
         !.bankAnswers = <<Answer(3076, <<"TAN", "approval", "timeout">>)>>]

\* The response once the loop has run out of attempts.
PollTimeoutResponse ==
    [ErrorResponse(408, MsgPollNotReceived) EXCEPT
         !.success = "false", !.isPending = TRUE,
         !.bankAnswers = <<Answer(3076, <<"TAN", "approval", "timeout">>)>>]

\* The pending check of handlePollTanStatus.
NoMatchingPending(s, operation) == ~s.pending.set \/ s.pending.op # operation

\* A status call returned: the poll clears pending and answers with the result.
PollSuccess(s, operation, out, ref) ==
    [session |-> [s EXCEPT !.pending = NoPending],
     resp |-> IF operation = "sync" /\ out.success /\ s.bankingInformation.known
              THEN [ResultResponse(out, ref) EXCEPT
                        !.data = BankingInformationData(s.bankingInformation)]
              ELSE ResultResponse(out, ref)]

PollFinish(s, r) ==
    /\ session' = s
    /\ resp' = r
    /\ pollPc' = "idle"

\* A status request that sends a TAN along.
PollStatusCallWithTan(operation, tanReference) ==
    Call(WithTanMethod(operation), tanReference, "123456")

\* The status request of one iteration: the reference of the payload and an
\* undefined TAN.
PollStatusCall(operation, tanReference) == Call(WithTanMethod(operation), tanReference, "")

\* A loop that sleeps after every pending attempt, the last one included.
PollSleepsAfterEvery(attempt, maxAttempts) == TRUE

\* if (attempt < maxAttempts) await sleep(intervalMs)
PollSleepsAfter(attempt, maxAttempts) == attempt < maxAttempts

\* An iteration starts: it throws before calling, or issues its status call.
\* made are the calls of the earlier iterations.
PollIterate(s, p, n, made) ==
    LET early == PollPrecheck(s, p) IN
    /\ pollAttempt' = n
    /\ IF early # <<>>
       THEN /\ PollFinish([s EXCEPT !.pending = NoPending],
                          PollHardFailure(PollKind(early), early))
            /\ pollCalls' = made
       ELSE /\ pollPc' = "call"
            /\ pollCalls' = Append(made, PollStatusCall(p.op, p.tanReference))
            /\ session' = s
            /\ resp' = NoResponse

\* A loop that runs one iteration more than maxAttempts.
PollContinueOneMore(s, p, n, made) ==
    IF n <= p.maxAttempts + 1
    THEN PollIterate(s, p, n, made)
    ELSE /\ PollFinish(s, PollTimeoutResponse)
         /\ pollAttempt' = n
         /\ pollCalls' = made

\* continue: attempt++, then the next iteration, or the end of the loop.
PollContinue(s, p, n, made) ==
    IF n <= p.maxAttempts
    THEN PollIterate(s, p, n, made)
    ELSE /\ PollFinish(s, PollTimeoutResponse)
         /\ pollAttempt' = n
         /\ pollCalls' = made

\* handleFinTSRequest for an action "pollTanStatus", as the client's poller
\* sends it (one attempt per request): the switch has no case for it.
handleFinTSRequest ==
    Ready /\
    \E op \in AnyOf(SingleOps, session.pending.set) :
        /\ Handled("handleFinTSRequest", PollPayload(op, "R1", "", 1),
                   UnknownAction(session), <<>>)

\* handlePollTanStatus up to its first await.
handlePollTanStatus ==
    Ready /\
    \E op \in PayloadOps \cup {""}, ref \in TanReferences \cup {""},
       n \in 1..MaxAttempts :
    \E acct \in AnyOf(AccountNumbers, op \in {"balance", "statements"}) :
        LET p == PollPayload(op, ref, acct, n) IN
        /\ pollPc = "idle"
        /\ UNCHANGED <<tanVars, sideVars>>
        /\ last' = "pollTanStatus"
        /\ req' = p
        /\ calls' = <<>>
        /\ replies' = <<>>
        /\ pollReq' = p
        /\ pollElapsed' = 0
        /\ pollSleeps' = 0
        /\ pollLog' = <<>>
        /\ IF ~session.client
           THEN /\ PollFinish(session, ErrorResponse(400, MsgNoActiveSession))
                /\ pollAttempt' = 0 /\ pollCalls' = <<>>
           ELSE IF ref = "" \/ op = ""
           THEN /\ PollFinish(session, ErrorResponse(400, MsgPollFieldsRequired))
                /\ pollAttempt' = 0 /\ pollCalls' = <<>>
           ELSE IF NoMatchingPending(session, op)
           THEN /\ PollFinish(session, ErrorResponse(400, MsgNoMatchingPending))
                /\ pollAttempt' = 0 /\ pollCalls' = <<>>
           ELSE PollIterate(session, p, 1, <<>>)

\* The status call of the current iteration returns or throws after d ticks.
pollReply ==
    \E d \in CallTicks, out \in Outcomes :
    \E bi \in AnyOf(InfoFor(out), pollReq.op = "sync") :
        LET errorMessage == ErrorMessage(out.answers)
            kind == IF out.kind = "ok" THEN "ok" ELSE PollKind(errorMessage)
            s1 == IF pollReq.op = "sync" THEN Refreshed(session, out, bi) ELSE session
            done == PollSuccess(s1, pollReq.op, out, pollReq.tanReference)
        IN
        /\ pollPc = "call"
        /\ last' = "pollReply"
        /\ calls' = <<pollCalls[Len(pollCalls)]>>
        /\ replies' = <<out>>
        /\ pollElapsed' = pollElapsed + d
        /\ pollLog' = Append(pollLog, [at |-> pollElapsed, kind |-> kind])
        /\ UNCHANGED <<req, pollReq, pollSleeps>>
        /\ UNCHANGED <<tanVars, sideVars>>
        /\ IF kind = "ok"
           THEN /\ PollFinish(done.session, done.resp)
                /\ UNCHANGED <<pollAttempt, pollCalls>>
           ELSE IF kind = "pending"
           THEN IF PollSleepsAfter(pollAttempt, pollReq.maxAttempts)
                THEN /\ pollPc' = "sleep"
                     /\ UNCHANGED <<session, resp, pollAttempt, pollCalls>>
                ELSE PollContinue(session, pollReq, pollAttempt + 1, pollCalls)
           ELSE /\ PollFinish([session EXCEPT !.pending = NoPending],
                              PollHardFailure(kind, errorMessage))
                /\ UNCHANGED <<pollAttempt, pollCalls>>

\* The sleep between two attempts ends and the next iteration starts.
pollSleep ==
    /\ pollPc = "sleep"
    /\ last' = "pollSleep"
    /\ calls' = <<>>
    /\ replies' = <<>>
    /\ pollElapsed' = pollElapsed + IntervalTicks
    /\ pollSleeps' = pollSleeps + 1
    /\ UNCHANGED <<req, pollReq, pollLog>>
    /\ UNCHANGED <<tanVars, sideVars>>
    /\ PollContinue(session, pollReq, pollAttempt + 1, pollCalls)

\* How the polling loop's catch block reads an error message.
TanKind(errorMessage) ==
    IF isPendingApproval(errorMessage) THEN "pending"
    ELSE IF isTanFailedPolling(errorMessage) THEN "failed"
    ELSE "other"

\* submitTanFn(tanReference, undefined)
TanStatusCall(tanReference) == Call("submitTanFn", tanReference, "")

\* if (Date.now() - startTime > timeoutMs)
TanTimedOut(elapsed, timeoutMs) == elapsed > timeoutMs

\* if (attempt < maxAttempts) await sleep(intervalMs)
TanSleepsAfter(attempt, maxAttempts) == attempt < maxAttempts

\* The catch block of one iteration for an error that is not "pending".
TanHardFailure(kind, errorMessage) ==
    IF kind = "failed" THEN Rejected(MsgPushTanCancelled) ELSE Rejected(errorMessage)

\* The top of one loop iteration: the timeout check, then the status call.
TanIterate(n, elapsed) ==
    /\ tanAttempt' = n
    /\ IF TanTimedOut(elapsed, tanIn.timeoutMs)
       THEN /\ tanPc' = "done"
            /\ tanOut' = Rejected(MsgPushTanTimeout)
            /\ UNCHANGED tanCalls
       ELSE /\ tanPc' = "call"
            /\ tanOut' = NotSettled
            /\ tanCalls' = Append(tanCalls, TanStatusCall(tanIn.tanReference))

\* continue: attempt++, then the next iteration, or the end of the loop.
TanContinue(n, elapsed) ==
    IF n <= tanIn.maxAttempts
    THEN TanIterate(n, elapsed)
    ELSE /\ tanAttempt' = n
         /\ tanPc' = "done"
         /\ tanOut' = Rejected(MsgPushTanNotReceived)
         /\ UNCHANGED tanCalls

\* handlePushTanWithPolling is called; it runs up to the await of tanCallback.
\* The sync module is an entry point of its own: it runs outside the HTTP
\* sessions.
handlePushTanWithPolling ==
    \E answers \in ChallengeAnswers, ref \in TanReferences,
       n \in 1..MaxAttempts, t \in 1..MaxTimeoutTicks :
        /\ tanPc = "none"
        /\ last = "idle" /\ session = NewSession
        /\ tanPc' = "callback"
        /\ tanIn' = [bankAnswers |-> answers, tanReference |-> ref,
                     maxAttempts |-> n, timeoutMs |-> t, tanResult |-> NoTanResult]
        /\ tanAttempt' = 0
        /\ tanElapsed' = 0
        /\ tanSleeps' = 0
        /\ tanCalls' = <<>>
        /\ tanLog' = <<>>
        /\ tanReplied' = <<>>
        /\ tanOut' = NotSettled
        /\ UNCHANGED <<httpVars, sideVars>>

\* A handler that goes on although the callback asked to cancel.
TanCancelledNever(tanResult) == FALSE

\* if (tanResult.cancel)
TanCancelled(tanResult) == tanResult.cancel

\* A submission that leaves out the TAN the user typed.
ManualTanCallWithoutTan(tanReference, tanResult) == Call("submitTanFn", tanReference, "")

\* submitTanFn(tanReference, tanResult.tan)
ManualTanCall(tanReference, tanResult) == Call("submitTanFn", tanReference, tanResult.tan)

\* tanCallback resolves after d ticks with { tan, cancel }; the TAN is read
\* only when a manual challenge is not cancelled.
tanCallback ==
    \E d \in CallTicks, cancel \in BOOLEAN :
    \E tan \in AnyOf(TanValues, ~cancel /\ ~isDecoupledTanChallenge(tanIn.bankAnswers)) :
        LET tanResult == [returned |-> TRUE, tan |-> tan, cancel |-> cancel] IN
        /\ tanPc = "callback"
        /\ tanElapsed' = tanElapsed + d
        /\ tanIn' = [tanIn EXCEPT !.tanResult = tanResult]
        /\ UNCHANGED <<tanSleeps, tanLog, tanReplied>>
        /\ UNCHANGED <<httpVars, sideVars>>
        /\ IF TanCancelled(tanResult)
           THEN /\ tanPc' = "done"
                /\ tanOut' = Rejected(MsgCancelledByUser)
                /\ UNCHANGED <<tanAttempt, tanCalls>>
           ELSE IF isDecoupledTanChallenge(tanIn.bankAnswers)
           THEN TanIterate(1, tanElapsed + d)
           ELSE /\ tanPc' = "call"
                /\ tanOut' = NotSettled
                /\ tanCalls' = Append(tanCalls, ManualTanCall(tanIn.tanReference, tanResult))
                /\ UNCHANGED tanAttempt

\* The submitTanFn call in flight returns or throws after d ticks.
tanReply ==
    \E d \in CallTicks, out \in Outcomes :
        LET errorMessage == ErrorMessage(out.answers)
            kind == IF out.kind = "ok" THEN "ok" ELSE TanKind(errorMessage)
        IN
        /\ tanPc = "call"
        /\ tanElapsed' = tanElapsed + d
        /\ tanLog' = Append(tanLog, [at |-> tanElapsed, kind |-> kind])
        /\ tanReplied' = <<out>>
        /\ UNCHANGED <<tanIn, tanSleeps>>
        /\ UNCHANGED <<httpVars, sideVars>>
        /\ IF out.kind = "ok"
           THEN /\ tanPc' = "done"
                /\ tanOut' = Resolved(out)
                /\ UNCHANGED <<tanAttempt, tanCalls>>
           ELSE IF ~isDecoupledTanChallenge(tanIn.bankAnswers)
           THEN /\ tanPc' = "done"
                /\ tanOut' = Rejected(errorMessage)
                /\ UNCHANGED <<tanAttempt, tanCalls>>
           ELSE IF kind = "pending"
           THEN IF TanSleepsAfter(tanAttempt, tanIn.maxAttempts)
                THEN /\ tanPc' = "sleep"
                     /\ tanOut' = NotSettled
                     /\ UNCHANGED <<tanAttempt, tanCalls>>
                ELSE TanContinue(tanAttempt + 1, tanElapsed + d)
           ELSE /\ tanPc' = "done"
                /\ tanOut' = TanHardFailure(kind, errorMessage)
                /\ UNCHANGED <<tanAttempt, tanCalls>>

\* The sleep between two attempts ends and the next iteration starts.
tanSleep ==
    /\ tanPc = "sleep"
    /\ tanElapsed' = tanElapsed + IntervalTicks
    /\ tanSleeps' = tanSleeps + 1
    /\ UNCHANGED <<tanIn, tanLog, tanReplied>>
    /\ UNCHANGED <<httpVars, sideVars>>
    /\ TanContinue(tanAttempt + 1, tanElapsed + IntervalTicks)

\* The caller has received the settled promise; the record of the run is dropped.
tanSettled ==
    /\ tanPc = "done"
    /\ tanPc' = "none"
    /\ tanIn' = NoTanArguments
    /\ tanAttempt' = 0
    /\ tanElapsed' = 0
    /\ tanSleeps' = 0
    /\ tanCalls' = <<>>
    /\ tanLog' = <<>>
    /\ tanReplied' = <<>>
    /\ tanOut' = NotSettled
    /\ UNCHANGED <<httpVars, sideVars>>

\* The response is sent; the record of the request is dropped with it.
respond ==
    /\ last # "idle"
    /\ pollPc = "idle"
    /\ last' = "idle"
    /\ req' = NoRequest
    /\ resp' = NoResponse
    /\ calls' = <<>>
    /\ replies' = <<>>
    /\ pollReq' = NoRequest
    /\ pollAttempt' = 0
    /\ pollElapsed' = 0
    /\ pollSleeps' = 0
    /\ pollCalls' = <<>>
    /\ pollLog' = <<>>
    /\ second.pc # "call"
    /\ cancelledAt' = -1
    /\ second' = NoSecond
    /\ UNCHANGED <<session, pollPc>>
    /\ UNCHANGED <<tanVars, storeVars, libVars>>

Next ==
    \/ handleStartSession
    \/ handleSynchronize
    \/ handleGetAccountBalance
    \/ handleGetAccountStatements
    \/ handleGetAllBalances
    \/ handleGetAllStatements
    \/ handleSubmitTan
    \/ handleSubmitTanEnhanced
    \/ handleSelectTan
    \/ handleFinTSRequest
    \/ handlePollTanStatus
    \/ respond
    \/ pollReply
    \/ pollSleep
    \/ handlePushTanWithPolling
    \/ tanCallback
    \/ tanReply
    \/ tanSleep
    \/ tanSettled

Spec == Init /\ [][Next]_vars

\* ------------------------------------------------------------- termination
\* The two polling loops, with every bank call, TAN callback and sleep they
\* await returning: an await that can complete does complete.
PollingNext ==
    \/ handleStartSession
    \/ handlePollTanStatus
    \/ pollReply
    \/ pollSleep
    \/ respond
    \/ handlePushTanWithPolling
    \/ tanCallback
    \/ tanReply
    \/ tanSleep
    \/ tanSettled

\* What a loop awaits: the reply of a bank call, the TAN callback, a sleep.
Awaited ==
    \/ pollPc = "call" /\ pollReply
    \/ pollPc = "sleep" /\ pollSleep
    \/ tanPc = "callback" /\ tanCallback
    \/ tanPc = "call" /\ tanReply
    \/ tanPc = "sleep" /\ tanSleep

TerminationSpec == Init /\ [][PollingNext]_vars /\ WF_vars(Awaited)

\* ------------------------------------------------------------ cancellation
\* The user clicks cancel in the TAN dialog while the server polls: resetTan
\* clears the client's TAN state.  It sends no request, and the router has no
\* action that would reach the loop of handlePollTanStatus.
resetTan ==
    /\ pollPc \in {"call", "sleep"}
    /\ cancelledAt = -1
    /\ cancelledAt' = Len(pollCalls)
    /\ UNCHANGED <<httpVars, tanVars, second, storeVars, libVars>>

\* A session that polls server-side, and a user who may cancel.
CancelNext ==
    \/ handleStartSession
    \/ handlePollTanStatus
    \/ pollReply
    \/ pollSleep
    \/ resetTan
    \/ respond

CancelSpec == Init /\ [][CancelNext]_vars

\* -------------------------------------------------------------- concurrency
\* handleFinTSRequest is async: while handlePollTanStatus awaits its status
\* call or its sleep, the server handles another request of the same cookie,
\* hence of the same Session object.  The second request carries the
\* reference of the same challenge.
SecondDone(r) == [second EXCEPT !.pc = "done", !.resp = r]

\* A submitTan arrives during the poll: handleSubmitTan up to its await.
concurrentSubmitTan ==
    \E op \in SingleOps, tan \in TanValues :
        LET ref == pollReq.tanReference
            started == [NoSecond EXCEPT !.name = "submitTan",
                                        !.req = SubmitPayload(op, ref, tan)]
        IN
        /\ pollPc \in {"call", "sleep"}
        /\ second.pc = "none"
        /\ second' =
              IF ~session.client
              THEN [started EXCEPT !.pc = "done", !.resp = ErrorResponse(400, MsgNoActiveSession)]
              ELSE IF NoPendingTanOp(session, op)
              THEN [started EXCEPT !.pc = "done", !.resp = ErrorResponse(400, MsgNoPendingTanOp)]
              ELSE IF op \in {"balance", "statements"} /\ session.pending.accountNumber = ""
              THEN [started EXCEPT !.pc = "done",
                                   !.resp = ErrorResponse(400, MsgNoAccountNumber(op))]
              ELSE [started EXCEPT !.pc = "call",
                                   !.calls = <<Call(WithTanMethod(op), ref, tan)>>]
        /\ UNCHANGED <<httpVars, tanVars, cancelledAt, storeVars, libVars>>

\* A pollTanStatus with maxAttempts 1 (what the client's poller sends) arrives
\* during the poll: handlePollTanStatus up to its await.
concurrentPollTanStatus ==
    \E op \in SingleOps :
        LET ref == pollReq.tanReference
            p == PollPayload(op, ref, pollReq.accountNumber, 1)
            started == [NoSecond EXCEPT !.name = "pollTanStatus", !.req = p]
            early == PollPrecheck(session, p)
        IN
        /\ pollPc \in {"call", "sleep"}
        /\ second.pc = "none"
        /\ IF ~session.client
           THEN /\ second' = [started EXCEPT !.pc = "done",
                                             !.resp = ErrorResponse(400, MsgNoActiveSession)]
                /\ UNCHANGED session
           ELSE IF NoMatchingPending(session, op)
           THEN /\ second' = [started EXCEPT !.pc = "done",
                                             !.resp = ErrorResponse(400, MsgNoMatchingPending)]
                /\ UNCHANGED session
           ELSE IF early # <<>>
           THEN /\ second' = [started EXCEPT !.pc = "done",
                                             !.resp = PollHardFailure(PollKind(early), early)]
                /\ session' = [session EXCEPT !.pending = NoPending]
           ELSE /\ second' = [started EXCEPT !.pc = "call",
                                             !.calls = <<PollStatusCall(op, ref)>>]
                /\ UNCHANGED session
        /\ UNCHANGED <<last, req, resp, calls, replies, pollVars>>
        /\ UNCHANGED <<tanVars, cancelledAt, storeVars, libVars>>

\* The bank call of the second request returns or throws.
concurrentReply ==
    \E out \in BatchReplies : \E bi \in AnyOf(InfoFor(out), second.req.op = "sync") :
        LET op == second.req.op
            ref == second.req.tanReference
            s1 == IF op = "sync" THEN Refreshed(session, out, bi) ELSE session
            errorMessage == ErrorMessage(out.answers)
            r == IF second.name = "submitTan"
                 THEN IF out.kind = "ok"
                      THEN SubmitTanSuccess(s1, op, out, ref)
                      ELSE SubmitTanCatch(FALSE, session, ref, out.answers)
                 ELSE IF out.kind = "ok"
                 THEN PollSuccess(s1, op, out, ref)
                 ELSE IF PollKind(errorMessage) = "pending"
                 THEN [session |-> session, resp |-> PollTimeoutResponse]
                 ELSE [session |-> [session EXCEPT !.pending = NoPending],
                       resp |-> PollHardFailure(PollKind(errorMessage), errorMessage)]
        IN
        /\ second.pc = "call"
        /\ session' = r.session
        /\ second' = SecondDone(r.resp)
        /\ UNCHANGED <<last, req, resp, calls, replies, pollVars>>
        /\ UNCHANGED <<tanVars, cancelledAt, storeVars, libVars>>

\* A session that polls server-side while a second request arrives.
ConcurrentNext ==
    \/ handleStartSession
    \/ handlePollTanStatus
    \/ pollReply
    \/ pollSleep
    \/ concurrentSubmitTan
    \/ concurrentPollTanStatus
    \/ concurrentReply
    \/ respond

ConcurrentSpec == Init /\ [][ConcurrentNext]_vars

\* A submitTan arrives while no poll runs and reaches its await; the requests
\* that arrive before its bank call completes are handled meanwhile, on the
\* same Session object.
submitTanAwaits ==
    \E op \in SingleOps, ref \in TanReferences, tan \in TanValues :
        LET started == [NoSecond EXCEPT !.name = "submitTan",
                                        !.req = SubmitPayload(op, ref, tan)]
        IN
        /\ Ready
        /\ pollPc = "idle"
        /\ second.pc = "none"
        /\ second' =
              IF ~session.client
              THEN [started EXCEPT !.pc = "done", !.resp = ErrorResponse(400, MsgNoActiveSession)]
              ELSE IF NoPendingTanOp(session, op)
              THEN [started EXCEPT !.pc = "done", !.resp = ErrorResponse(400, MsgNoPendingTanOp)]
              ELSE IF op \in {"balance", "statements"} /\ session.pending.accountNumber = ""
              THEN [started EXCEPT !.pc = "done",
                                   !.resp = ErrorResponse(400, MsgNoAccountNumber(op))]
              ELSE [started EXCEPT !.pc = "call",
                                   !.calls = <<Call(WithTanMethod(op), ref, tan)>>]
        /\ UNCHANGED <<httpVars, tanVars, cancelledAt, storeVars, libVars>>

\* A session whose submitTan awaits the bank while other requests of the
\* same cookie pass through the dispatcher.
InterleavedNext ==
    \/ handleStartSession
    \/ handleGetAccountBalance
    \/ submitTanAwaits
    \/ concurrentReply
    \/ respond

InterleavedSpec == Init /\ [][InterleavedNext]_vars

\* ------------------------------------------------- the reference of a challenge
\* The bank issues a tanReference with every challenge; the response that
\* reports requiresTan carries it to the client.  issued remembers it, so that
\* the reference a later request names can be compared with it.
Issued(r) == IF r.requiresTan THEN r.tanReference ELSE issued
referenceFrame ==
    <<tanVars, cancelledAt, second, storeVars, poller, classified, syncAll, moreVars>>

\* handleStartSession, with the reference of its challenge remembered.
startSessionIssues ==
    Ready /\
    \E out \in Outcomes : \E ref \in RefsFor(out), bi \in InfoFor(out) :
        LET r == StartSession(session, out, ref, bi) IN
        /\ HandledRequest("startSession", NoRequest, r, <<out>>)
        /\ issued' = Issued(r.resp)
        /\ UNCHANGED referenceFrame

\* handleGetAccountBalance, with the reference of its challenge remembered.
getAccountBalanceIssues ==
    Ready /\
    \E acct \in AccountNumbers, out \in AnyOf(Outcomes, session.client) : \E ref \in RefsFor(out) :
        LET r == GetForAccount("balance", session, acct, out, ref) IN
        /\ HandledRequest("getAccountBalance", [NoRequest EXCEPT !.accountNumber = acct],
                          r, <<out>>)
        /\ issued' = Issued(r.resp)
        /\ UNCHANGED referenceFrame

\* handleSubmitTan for a single operation; a response that reports a further
\* challenge carries its reference.
submitTanForwards ==
    Ready /\
    \E op \in SingleOps, ref \in TanReferences, tan \in TanValues :
    \E out \in AnyOf(Outcomes, Resumes(session, op)) : \E bi \in AnyOf(InfoFor(out), op = "sync") :
        LET r == SubmitTan(FALSE, session, op, ref, tan, out, <<>>, bi) IN
        /\ HandledRequest("submitTan", SubmitPayload(op, ref, tan), r, <<out>>)
        /\ issued' = Issued(r.resp)
        /\ UNCHANGED referenceFrame

\* A session whose challenges are resumed by submitTan and pollTanStatus
\* requests that name any reference.
ReferenceNext ==
    \/ startSessionIssues
    \/ getAccountBalanceIssues
    \/ submitTanForwards
    \/ handlePollTanStatus
    \/ pollReply
    \/ pollSleep
    \/ respond

ReferenceSpec == Init /\ [][ReferenceNext]_vars

\* ---------------------------------------------------------- the session store
\* Session identifiers are numbers here; a cookie value is an identifier, an
\* identifier the server never issued (MaxSessions + 1), or empty (0).  All
\* of them consist of characters decodeURIComponent leaves alone.
SessionIds == 1..MaxSessions
CookieValues == 0..(MaxSessions + 1)
CookiePairs == {<<"theme", 0>>} \cup { <<"fints_sid", v>> : v \in CookieValues }
\* The Cookie header, split at "; " and "=": no cookie (also: no header), or
\* up to MaxCookies cookies, at most one of them named fints_sid.
CookieHeaders ==
    {<<>>} \cup
    { h \in SeqsUpTo(CookiePairs, MaxCookies) :
        Cardinality({ i \in 1..Len(h) : h[i][1] = "fints_sid" }) <= 1 }

\* Object.fromEntries(...)[name]: the value of the last cookie of that name;
\* 0 (undefined) when there is none.
CookieNamed(header, name) ==
    LET at == { i \in 1..Len(header) : header[i][1] = name } IN
    IF at = {} THEN 0
    ELSE header[CHOOSE i \in at : \A j \in at : j <= i][2]

\* A lookup that never finds the session.
CreatesSessionAlways(sid, store) == TRUE

\* if (!sid || !sessions.has(sid))
CreatesSession(sid, store) == sid = 0 \/ sid \notin DOMAIN store

requestVars ==
    <<session, req, resp, calls, replies, pollVars, tanVars, cancelledAt, second, libVars>>

\* An identifier taken from the request's cookie when that looks like one.
randomUUIDFromCookie(store, presented) ==
    IF presented \in SessionIds THEN {presented} ELSE SessionIds \ DOMAIN store

\* randomUUID(): what it can return.  A version 4 UUID has 122 random bits:
\* it is an identifier that is not in use and not the value the request
\* presented.
randomUUID(store, presented) == SessionIds \ (DOMAIN store \cup {presented})

\* getOrCreateSession(req)
getOrCreateSession ==
    \E header \in CookieHeaders :
        LET sid == CookieNamed(header, "fints_sid") IN
        /\ IF CreatesSession(sid, sessions)
           THEN \E new \in randomUUID(sessions, sid) :
                    /\ sessions' = (new :> NewSession) @@ sessions
                    /\ manager' = [cookieHeader |-> header, id |-> new,
                                   session |-> NewSession, setCookie |-> new]
           ELSE /\ sessions' = sessions
                /\ manager' = [cookieHeader |-> header, id |-> sid,
                               session |-> sessions[sid], setCookie |-> 0]
        /\ last' = "getOrCreateSession"
        /\ UNCHANGED requestVars

\* clearSession(sessionId)
clearSession ==
    \E sessionId \in DOMAIN sessions :
        /\ sessions' = [sid \in DOMAIN sessions \ {sessionId} |-> sessions[sid]]
        /\ last' = "clearSession"
        /\ UNCHANGED <<manager, requestVars>>

\* handleFinTSRequest hands the session getOrCreateSession returned to
\* handleStartSession, which changes the stored object: the synchronize asks
\* for a TAN, or throws.
startManagedSession ==
    \E out \in TanResults \cup {Thrown(<<AnswerPool[1]>>)} :
        /\ manager.id \in DOMAIN sessions
        /\ sessions' =
              [sessions EXCEPT ![manager.id] =
                  StartSession(@, out, "R1", NoBankingInformation).session]
        /\ last' = "startManagedSession"
        /\ UNCHANGED <<manager, requestVars>>

SessionNext ==
    \/ getOrCreateSession
    \/ clearSession
    \/ startManagedSession

SessionSpec == Init /\ [][SessionNext]_vars

\* ------------------------------------------------- requests of several sessions
\* handleFinTSRequest is async: a request that awaits its bank call leaves the
\* server free to handle requests of other cookies.  Each request works on
\* the Session object getOrCreateSession returned to it.  The requests in
\* flight at one time belong to different sessions here, so what a handler
\* reads and writes of its session takes effect at once, when its bank call
\* returns.
IsolationActions == {"startSession", "getAccountBalance", "submitTan"}
IsolationOutcomes ==
    { Returned(TRUE, TRUE, FALSE), Returned(TRUE, FALSE, TRUE),
      Thrown(<<AnswerPool[1]>>) }

\* Every stored session is one and the same object.
StoreSessionShared(store, id, s) == [sid \in DOMAIN store |-> s]

\* The handler changes the object sessions.get(sid) returned.
StoreSession(store, id, s) == [store EXCEPT ![id] = s]

\* What the handler of an action makes of its session.
HandledSession(action, s, op, out) ==
    IF action = "startSession" THEN StartSession(s, out, "R1", NoBankingInformation).session
    ELSE IF ~s.client THEN s
    ELSE IF action = "getAccountBalance"
    THEN GetForAccount("balance", s, "A1", out, "R1").session
    ELSE SubmitTan(FALSE, s, op, "R1", "", out, <<>>, NoBankingInformation).session

\* A request arrives: getOrCreateSession finds or creates its session, and
\* the handler of its action runs up to its bank call.
requestArrives ==
    \E sid \in CookieValues, action \in IsolationActions :
        /\ IF CreatesSession(sid, sessions)
           THEN \E new \in randomUUID(sessions, sid) :
                    /\ sessions' = (new :> NewSession) @@ sessions
                    /\ inflight' = [inflight EXCEPT ![new] = action]
           ELSE /\ inflight[sid] = NoFlight
                /\ sessions' = sessions
                /\ inflight' = [inflight EXCEPT ![sid] = action]
        /\ last' = "requestArrives"
        /\ UNCHANGED <<session, req, resp, calls, replies, pollVars, tanVars, cancelledAt,
                       second, manager, poller, classified, syncAll, issued, tanQueue>>

\* The bank call of a request in flight returns or throws, and its handler
\* runs to its end.
requestCompletes ==
    \E id \in DOMAIN sessions, out \in IsolationOutcomes :
    \E op \in AnyOf({"sync", "balance"}, inflight[id] = "submitTan") :
        /\ inflight[id] # NoFlight
        /\ sessions' = StoreSession(sessions, id,
                                    HandledSession(inflight[id], sessions[id], op, out))
        /\ inflight' = [inflight EXCEPT ![id] = NoFlight]
        /\ last' = "requestCompletes"
        /\ UNCHANGED <<session, req, resp, calls, replies, pollVars, tanVars, cancelledAt,
                       second, manager, poller, classified, syncAll, issued, tanQueue>>

IsolationNext ==
    \/ requestArrives
    \/ requestCompletes

IsolationSpec == Init /\ [][IsolationNext]_vars

\* --------------------------------------------------- the classifier, applied
\* Everything but the state of the client-side and library functions below.
serverVars == <<httpVars, tanVars, cancelledAt, second, storeVars>>

\* The bank answers a response can list.
BankAnswerPool ==
    { Answer(3060, <<"Starke", "Kundenauthentifizierung", "erforderlich">>),
      Answer(3060, <<"Bitte", "beachten", "Sie", "die", "enthaltenen", "Warnungen/Hinweise.">>),
      Answer(3060, <<"Strong", "authentication", "required">>),
      Answer(3060, <<"Eingabe", "erforderlich">>),
      Answer(3076, <<"Auftrag", "wurde", "noch", "nicht", "freigegeben">>),
      Answer(3956, <<"Starke", "Kundenauthentifizierung", "noch", "ausstehend">>),
      Answer(3072, <<"TAN", "an", "Geraet", "gesendet">>),
      Answer(3077, <<"Auftrag", "abgebrochen">>),
      Answer(3078, <<"TAN", "abgelaufen">>),
      Answer(3073, <<"Geraet", "nicht", "verfuegbar">>),
      Answer(3920, <<"Zugelassene", "Zwei-Schritt-Verfahren", "fuer", "den", "Benutzer.">>),
      Answer(3955, <<"Auftrag", "empfangen">>),
      Answer(3050, <<"UPD", "nicht", "mehr", "aktuell,", "aktuelle", "Version", "enthalten.">>),
      Answer(3938, <<"PIN", "voruebergehend", "gesperrt">>),
      Answer(9340, <<"PIN", "falsch">>),
      Answer(9942, <<"PIN", "gesperrt">>),
      Answer(9210, <<"Benutzer", "gesperrt">>),
      Answer(9900, <<"Anmeldung", "fehlgeschlagen">>),
      Answer(9941, <<"TAN", "ungueltig">>),
      Answer(9050, <<"Nachricht", "enthaelt", "Fehler">>),
      Answer(20, <<"Der", "Auftrag", "wurde", "ausgefuehrt.">>),
      Answer(1234, <<"Additional", "info">>) }

\* What a caller hands to the classifier: no list, or a list of up to
\* MaxBankAnswers answers in any order.
BankAnswerLists == {undefined, <<>>} \cup SeqsUpTo(BankAnswerPool, MaxBankAnswers)

ClassifierInit ==
    /\ BaseInit
    /\ classified \in { [NoClassified EXCEPT !.bankAnswers = a, !.pc = "given"] :
                            a \in BankAnswerLists }

\* The classifier functions applied to the list.
classify ==
    /\ classified.pc = "given"
    /\ classified' =
          [classified EXCEPT
              !.pc = "classified",
              !.pending = isDecoupledTanPending(classified.bankAnswers),
              !.failed = isDecoupledTanFailed(classified.bankAnswers),
              !.challenge = isDecoupledTanChallenge(classified.bankAnswers),
              !.message = getBankErrorMessage(classified.bankAnswers)]
    /\ UNCHANGED <<serverVars, poller, syncAll, issued, moreVars>>

\* The callback of createAutomaticPushTanCallback called with the list of a
\* challenge.
automaticPushTanCallback ==
    \E given \in BOOLEAN :
        /\ classified.pc = "given"
        /\ classified' =
              [classified EXCEPT
                  !.pc = "called",
                  !.onPushTanDetected = given,
                  !.result = AutomaticPushTanCallback(given, classified.bankAnswers)]
        /\ UNCHANGED <<serverVars, poller, syncAll, issued, moreVars>>

ClassifierNext ==
    \/ classify
    \/ automaticPushTanCallback

ClassifierSpec == ClassifierInit /\ [][ClassifierNext]_vars

\* ------------------------------------------------------- the client's poller
\* The decimal rendering of an HTTP status, as one token.
StatusToken(status) ==
    CASE status = 200 -> "200" [] status = 400 -> "400" [] status = 408 -> "408"
      [] status = 500 -> "500" [] OTHER -> "status"

\* What the server answers a one-attempt pollTanStatus request: the answers
\* of handlePollTanStatus and those handleFinTSRequest gives itself.
PollerResponses ==
    { ResultResponse(out, ref) : out \in FinalResults, ref \in {"R1"} }
      \cup { PollTimeoutResponse,
             PollHardFailure("failed", <<"3077", "Auftrag", "abgebrochen">>),
             PollHardFailure("other", <<"9050", "Nachricht", "enthaelt", "Fehler">>),
             ErrorResponse(400, MsgNoMatchingPending),
             ErrorResponse(400, MsgNoActiveSession),
             ErrorResponse(400, MsgUnknownAction),
             [ErrorResponse(500, <<"TAN", "status", "polling", "failed:", "errorMessage">>)
                  EXCEPT !.success = "false"] }

\* api(body): the parsed body of an ok response, or an error that carries
\* nothing but the status.
api(res) ==
    IF res.status >= 200 /\ res.status <= 299
    THEN [kind |-> "return", value |-> res, error |-> <<>>]
    ELSE [kind |-> "throw", value |-> NoResponse,
          error |-> <<"HTTP", StatusToken(res.status)>>]

\* The catch block of the poller: is this a pending status?
PollerReadsPending(errorMessage) ==
    \/ Includes(errorMessage, <<"still", "pending">>)
    \/ Includes(errorMessage, <<"not", "yet", "approved">>)
    \/ Includes(errorMessage, <<"3076">>)

MsgPollerTimeout ==
    <<"Push", "TAN", "approval", "timeout", "after", "maxAttempts", "attempts.",
      "Please", "check", "your", "banking", "app", "and", "try", "again.">>

\* pollTanStatusAutomatically(tanReference, operation, accountNumber, options)
\* is called and enters its loop.
pollTanStatusAutomatically ==
    \E operation \in SingleOps, tanReference \in TanReferences,
       accountNumber \in AccountNumbers, maxAttempts \in 1..MaxAttempts :
        /\ poller.pc = "idle"
        /\ poller' = [NoPoller EXCEPT !.pc = "request", !.operation = operation,
                                      !.tanReference = tanReference,
                                      !.accountNumber = accountNumber,
                                      !.maxAttempts = maxAttempts, !.attempt = 1]
        /\ UNCHANGED <<serverVars, classified, syncAll, issued, moreVars>>

\* One iteration of the loop: the request, the server's answer, and the
\* catch block with its sleep.
pollerAttempt ==
    \E res \in PollerResponses :
        LET answered == api(res)
            log == Append(poller.log, res)
        IN
        /\ poller.pc = "request"
        /\ poller' =
              IF answered.kind = "return"
              THEN [poller EXCEPT !.pc = "returned", !.log = log, !.result = answered.value]
              ELSE IF PollerReadsPending(answered.error)
              THEN IF poller.attempt < poller.maxAttempts
                   THEN [poller EXCEPT !.attempt = @ + 1, !.log = log]
                   ELSE [poller EXCEPT !.pc = "thrown", !.attempt = @ + 1, !.log = log,
                                       !.error = MsgPollerTimeout]
              ELSE [poller EXCEPT !.pc = "thrown", !.log = log, !.error = answered.error]
        /\ UNCHANGED <<serverVars, classified, syncAll, issued, moreVars>>

PollerNext ==
    \/ pollTanStatusAutomatically
    \/ pollerAttempt

PollerSpec == Init /\ [][PollerNext]_vars

\* -------------------------------------------------------- syncAllStatements
\* errors.join("; ")
RECURSIVE JoinErrors(_)
JoinErrors(errors) ==
    IF Len(errors) = 0 THEN <<>>
    ELSE IF Len(errors) = 1 THEN errors[1]
    ELSE errors[1] \o <<";">> \o JoinErrors(Tail(errors))

SyncFailure(msg) == [returned |-> TRUE, success |-> FALSE, error |-> msg, statements |-> {}]

MsgSyncNoCallback ==
    <<"TAN", "authentication", "required", "but", "no", "TAN", "callback", "provided.">>
MsgSyncNoReference ==
    <<"TAN", "authentication", "required", "but", "bank", "provided", "no", "TAN",
      "reference">>
MsgSyncNoAccounts == <<"No", "accounts", "found", "after", "synchronization">>
MsgSyncAccountNotFound(a) == <<"Account", a, "not", "found">>

\* syncRes.bankAnswers.some((answer) => answer.code === 3938 || answer.code === 9900);
\* <<>> is an absent list as well as an empty one.
isPinBlockedOnly3938(bankAnswers) ==
    \E i \in 1..Len(bankAnswers) : bankAnswers[i].code = 3938

isPinBlocked(bankAnswers) ==
    \E i \in 1..Len(bankAnswers) : bankAnswers[i].code \in {3938, 9900}

\* syncRes.bankAnswers.find(...)?.text || "PIN is blocked or login failed"
blockMessage(bankAnswers) ==
    LET i == CHOOSE i \in 1..Len(bankAnswers) :
                 /\ bankAnswers[i].code \in {3938, 9900}
                 /\ \A j \in 1..(i - 1) : bankAnswers[j].code \notin {3938, 9900}
    IN IF bankAnswers[i].text = <<>>
       THEN <<"PIN", "is", "blocked", "or", "login", "failed">>
       ELSE bankAnswers[i].text

MsgSyncBlocked(bankAnswers) ==
    <<"Authentication", "failed:">> \o blockMessage(bankAnswers)
       \o <<".", "Please", "unblock", "your", "PIN">>

\* The bank answers of the first synchronize of syncAllStatements.
SyncBankAnswers ==
    { <<>>,
      <<Answer(20, <<"Auftrag", "ausgefuehrt">>)>>,
      <<Answer(3938, <<"PIN", "gesperrt">>)>>,
      <<Answer(3920, <<"TAN", "erforderlich">>), Answer(9900, <<>>)>> }

\* What a synchronize call of syncAllStatements does: it throws, or returns a
\* result that reports no success, success, or a TAN requirement with or
\* without a reference.
SyncOutcomes == {"throw", "failed", "ok", "tan", "tanNoReference"}

\* client.selectTanMethod(923): not called ("none": no success, or the bank
\* does not offer method 923), called and returned, called and thrown.
SelectTanOutcomes == {"none", "ok", "throw"}

\* The BankingClient calls of handlePushTanWithPolling with the resumption
\* function of the synchronization: none when the callback cancelled.
SyncTanCalls(tan, name) ==
    IF tan.kind = "throw" /\ tan.error = MsgCancelledByUser THEN <<>> ELSE <<name>>

\* What handlePushTanWithPolling does for syncAllStatements.
SyncTanOutcomes ==
    { Resolved(out) : out \in FinalResults }
      \cup { Rejected(MsgCancelledByUser), Rejected(MsgPushTanCancelled),
             Rejected(MsgPushTanNotReceived) }

\* What client.getAccountStatements does for one account.
SyncFetchOutcomes ==
    FinalResults \cup TanResults \cup {Thrown(<<AnswerPool[Len(AnswerPool)]>>)}

\* accounts.filter(acc => acc.accountNumber === options.accountNumber || ...);
\* "" is an absent option.
RECURSIVE TargetAccounts(_, _)
TargetAccounts(accounts, accountNumber) ==
    IF accountNumber = "" \/ accounts = <<>> THEN accounts
    ELSE IF Head(accounts) = accountNumber
    THEN <<Head(accounts)>> \o TargetAccounts(Tail(accounts), accountNumber)
    ELSE TargetAccounts(Tail(accounts), accountNumber)

\* syncAllStatements up to its loop: the result it returns early, or the
\* accounts it goes on to fetch, and the BankingClient calls made so far.
SyncPreamble(hasTanCallback, firstSync, bankAnswers, selectTan, secondSync, tan, accounts, accountNumber) ==
    LET again == firstSync = "ok"
        final == IF again /\ secondSync # "throw" THEN secondSync ELSE firstSync
        targets == TargetAccounts(accounts, accountNumber)
        selected == IF selectTan = "none" THEN <<>> ELSE <<"selectTanMethod">>
        synced == <<"synchronize">> \o selected
                     \o (IF again THEN <<"synchronize">> ELSE <<>>)
        resumed == IF final = "tan" /\ hasTanCallback
                   THEN synced \o SyncTanCalls(tan, "synchronizeWithTan")
                   ELSE synced
        early(msg, made) ==
            [NoSync EXCEPT !.pc = "done", !.tanCallback = hasTanCallback,
                           !.bankAnswers = bankAnswers, !.calls = made,
                           !.result = SyncFailure(msg)]
    IN
    IF firstSync = "throw" THEN early(<<"Sync", "failed:", "errorMessage">>, <<"synchronize">>)
    ELSE IF isPinBlocked(bankAnswers)
    THEN early(MsgSyncBlocked(bankAnswers), <<"synchronize">>)
    ELSE IF selectTan = "throw"
    THEN early(<<"Sync", "failed:", "errorMessage">>, <<"synchronize", "selectTanMethod">>)
    ELSE IF final \in {"tan", "tanNoReference"} /\ ~hasTanCallback
    THEN early(MsgSyncNoCallback, synced)
    ELSE IF final = "tanNoReference" THEN early(MsgSyncNoReference, synced)
    ELSE IF final = "tan" /\ tan.kind = "throw"
    THEN early(<<"TAN", "authentication", "failed:">> \o tan.error, resumed)
    ELSE IF accounts = <<>> THEN early(MsgSyncNoAccounts, resumed)
    ELSE IF targets = <<>> THEN early(MsgSyncAccountNotFound(accountNumber), resumed)
    ELSE [NoSync EXCEPT !.pc = "loop", !.tanCallback = hasTanCallback,
                        !.bankAnswers = bankAnswers, !.calls = resumed,
                        !.targetAccounts = targets, !.index = 1]

\* The error messages of the loop.
SyncErrNoCallback(a) ==
    <<"TAN", "required", "for", "account", a, "but", "no", "callback", "provided">>
SyncErrAfterTan(a) ==
    <<"Failed", "to", "retrieve", "statements", "for", "account", a, ":", "Unknown", "error">>
SyncErrCancelled(a) == <<"TAN", "authentication", "cancelled", "for", "account", a>>
SyncErrTanFailed(a, msg) ==
    <<"TAN", "authentication", "failed", "for", "account", a, ":">> \o msg
SyncErrFailed(a) == <<"Failed", "to", "retrieve", "statements", "for", "account", a>>
SyncErrThrown(a, msg) == <<"Error", "for", "account", a, ":">> \o msg

\* One iteration of the loop for account a: fetch is what getAccountStatements
\* does, tan what handlePushTanWithPolling does when it is called.  The
\* iteration stores the statements, or pushes one error.
SyncAccount(a, hasTanCallback, fetch, tan) ==
    LET stored == [retrieved |-> TRUE, error |-> <<>>]
        failed(msg) == [retrieved |-> FALSE, error |-> msg]
    IN
    IF fetch.kind = "throw" THEN failed(SyncErrThrown(a, ErrorMessage(fetch.answers)))
    ELSE IF fetch.requiresTan
    THEN IF ~hasTanCallback THEN failed(SyncErrNoCallback(a))
         ELSE IF tan.kind = "throw"
         THEN IF Includes(tan.error, <<"cancelled">>)
              THEN failed(SyncErrCancelled(a))
              ELSE failed(SyncErrTanFailed(a, tan.error))
         ELSE IF tan.reply.success /\ tan.reply.hasData THEN stored
         ELSE failed(SyncErrAfterTan(a))
    ELSE IF fetch.success /\ fetch.hasData THEN stored
    ELSE failed(SyncErrFailed(a))

\* A result that counts as a success only when no account failed.
SyncReturnAllOrNothing(statements, errors) ==
    IF statements = {} \/ Len(errors) > 0
    THEN SyncFailure(IF Len(errors) > 0 THEN JoinErrors(errors)
                     ELSE <<"No", "statements", "retrieved">>)
    ELSE [returned |-> TRUE, success |-> TRUE, statements |-> statements, error |-> <<>>]

\* The result after the loop.
SyncReturn(statements, errors) ==
    IF statements = {}
    THEN SyncFailure(IF Len(errors) > 0 THEN JoinErrors(errors)
                     ELSE <<"No", "statements", "retrieved">>)
    ELSE [returned |-> TRUE, success |-> TRUE, statements |-> statements,
          error |-> IF Len(errors) > 0
                    THEN <<"Partial", "success.", "Errors:">> \o JoinErrors(errors)
                    ELSE <<>>]

\* syncAllStatements(credentials, options, tanCallback) is called and runs up
\* to its loop.
syncAllStatements ==
    \E hasTanCallback \in BOOLEAN, firstSync \in SyncOutcomes, secondSync \in SyncOutcomes,
       tan \in SyncTanOutcomes, n \in 0..MaxAccounts, accountNumber \in {"", "A1", "A9"} :
    \E bankAnswers \in IF firstSync = "throw" THEN {<<>>} ELSE SyncBankAnswers :
    \E selectTan \in IF firstSync \in {"throw", "failed"} THEN {"none"} ELSE SelectTanOutcomes :
        /\ syncAll.pc = "none"
        /\ syncAll' = SyncPreamble(hasTanCallback, firstSync, bankAnswers, selectTan,
                                secondSync, tan, SubSeq(AllAccounts, 1, n), accountNumber)
        /\ UNCHANGED <<serverVars, poller, classified, issued, moreVars>>

\* One iteration of the loop over targetAccounts.
syncAccountStatements ==
    \E fetch \in SyncFetchOutcomes :
    \E tan \in AnyOf(SyncTanOutcomes,
                      fetch.kind = "ok" /\ fetch.requiresTan /\ syncAll.tanCallback) :
        LET a == syncAll.targetAccounts[syncAll.index]
            r == SyncAccount(a, syncAll.tanCallback, fetch, tan)
        IN
        /\ syncAll.pc = "loop"
        /\ syncAll.index <= Len(syncAll.targetAccounts)
        /\ syncAll' = [syncAll EXCEPT
                        !.index = @ + 1,
                        !.statements = IF r.retrieved THEN @ \cup {a} ELSE @,
                        !.errors = IF r.retrieved THEN @ ELSE Append(@, r.error),
                        !.calls =
                            @ \o <<"getAccountStatements">>
                              \o (IF fetch.kind = "ok" /\ fetch.requiresTan /\ syncAll.tanCallback
                                  THEN SyncTanCalls(tan, "getAccountStatementsWithTan")
                                  ELSE <<>>),
                        !.log = Append(@, [fetch |-> fetch, tan |-> tan])]
        /\ UNCHANGED <<serverVars, poller, classified, issued, moreVars>>

\* The loop is over: syncAllStatements returns its result.
syncReturn ==
    /\ syncAll.pc = "loop"
    /\ syncAll.index > Len(syncAll.targetAccounts)
    /\ syncAll' = [syncAll EXCEPT !.pc = "done",
                            !.result = SyncReturn(syncAll.statements, syncAll.errors)]
    /\ UNCHANGED <<serverVars, poller, classified, issued, moreVars>>

SyncNext ==
    \/ syncAllStatements
    \/ syncAccountStatements
    \/ syncReturn

SyncSpec == Init /\ [][SyncNext]_vars

\* ----------------------------------------------------------------- TanQueue
\* The queue holds the ids of its entries; promises[id] lists the calls of
\* resolve and reject made on the promise of request id, of which the first
\* settles it; timers holds the ids whose timer is armed.
MaxTanRequests == 2

MsgTanTimeout == <<"TAN", "request", "timeout", "after", "ms">>
MsgNoTanHandler == <<"No", "TAN", "handler", "registered">>
MsgTanCancelled == <<"TAN", "authentication", "cancelled">>
MsgTanQueueCleared == <<"TAN", "queue", "cleared">>
MsgHandlerThrew == <<"handler", "error">>

Settle(by, kind, value) == [by |-> by, kind |-> kind, value |-> value]

\* What a method call leaves in tanQueue.returned.
TanCall(op, requestId, value) == [op |-> op, requestId |-> requestId, value |-> value]

\* request.resolve(...) or request.reject(...) of every listed id.
SettleAll(promises, ids, settle) ==
    [id \in DOMAIN promises |->
        IF id \in ids THEN Append(promises[id], settle) ELSE promises[id]]

\* setTanHandler(handler): the handler returns when it is called, or throws.
setTanHandler ==
    \E handler \in {"returns", "throws"} :
        /\ tanQueue' = [tanQueue EXCEPT !.onTanRequired = handler,
                                        !.returned = TanCall("setTanHandler", 0, handler)]
        /\ UNCHANGED <<serverVars, poller, classified, syncAll, issued, inflight>>

\* requestTan(challenge, reference, bankAnswers): the executor of the promise
\* adds the entry and arms the timer, then calls the handler; an exception of
\* the handler leaves the executor and rejects the promise.
requestTan ==
    LET id == Len(tanQueue.promises) + 1 IN
    /\ id <= MaxTanRequests
    /\ tanQueue' =
          IF tanQueue.onTanRequired = ""
          THEN [tanQueue EXCEPT
                  !.promises = Append(@, <<Settle("requestTan", "reject", MsgNoTanHandler)>>),
                  !.returned = TanCall("requestTan", id, "promise")]
          ELSE [tanQueue EXCEPT
                  !.queue = @ \cup {id},
                  !.timers = @ \cup {id},
                  !.promises =
                      Append(@, IF tanQueue.onTanRequired = "throws"
                                THEN <<Settle("onTanRequired", "reject", MsgHandlerThrew)>>
                                ELSE <<>>),
                  !.returned = TanCall("requestTan", id, "promise")]
    /\ UNCHANGED <<serverVars, poller, classified, syncAll, issued, inflight>>

\* The timer of request id fires.
requestTimeout ==
    \E id \in tanQueue.timers :
        /\ tanQueue' =
              IF id \in tanQueue.queue
              THEN [tanQueue EXCEPT
                      !.queue = @ \ {id},
                      !.timers = @ \ {id},
                      !.promises = SettleAll(@, {id}, Settle("timeout", "reject", MsgTanTimeout)),
                      !.returned = TanCall("timeout", id, "void")]
              ELSE [tanQueue EXCEPT !.timers = @ \ {id},
                                    !.returned = TanCall("timeout", id, "void")]
        /\ UNCHANGED <<serverVars, poller, classified, syncAll, issued, inflight>>

\* submitTan(response)
QueueSubmitTan(q, response) ==
    IF response.requestId \notin q.queue
    THEN [q EXCEPT !.returned = TanCall("submitTan", response.requestId, FALSE)]
    ELSE [q EXCEPT
            !.queue = @ \ {response.requestId},
            !.promises =
                SettleAll(@, {response.requestId},
                          IF response.cancel
                          THEN Settle("submitTan", "reject", MsgCancelledByUser)
                          ELSE Settle("submitTan", "resolve", <<response.tan>>)),
            !.returned = TanCall("submitTan", response.requestId, TRUE)]

submitTan ==
    \E requestId \in 1..(MaxTanRequests + 1), tan \in TanValues, cancel \in BOOLEAN :
        /\ tanQueue' = QueueSubmitTan(tanQueue, [requestId |-> requestId, tan |-> tan,
                                                 cancel |-> cancel])
        /\ UNCHANGED <<serverVars, poller, classified, syncAll, issued, inflight>>

\* cancelTan(requestId)
cancelTan ==
    \E requestId \in 1..(MaxTanRequests + 1) :
        /\ tanQueue' =
              IF requestId \notin tanQueue.queue
              THEN [tanQueue EXCEPT !.returned = TanCall("cancelTan", requestId, FALSE)]
              ELSE [tanQueue EXCEPT
                      !.queue = @ \ {requestId},
                      !.promises = SettleAll(@, {requestId},
                                             Settle("cancelTan", "reject", MsgTanCancelled)),
                      !.returned = TanCall("cancelTan", requestId, TRUE)]
        /\ UNCHANGED <<serverVars, poller, classified, syncAll, issued, inflight>>

\* clearAll()
clearAll ==
    /\ tanQueue' =
          [tanQueue EXCEPT
              !.queue = {},
              !.promises = SettleAll(@, tanQueue.queue,
                                     Settle("clearAll", "reject", MsgTanQueueCleared)),
              !.returned = TanCall("clearAll", 0, "void")]
    /\ UNCHANGED <<serverVars, poller, classified, syncAll, issued, inflight>>

TanQueueNext ==
    \/ setTanHandler
    \/ requestTan
    \/ requestTimeout
    \/ submitTan
    \/ cancelTan
    \/ clearAll

TanQueueSpec == Init /\ [][TanQueueNext]_vars

\* =================================================================== claims
SubmitSteps == {"submitTan", "submitTanEnhanced"}

\* Whether the catch block of the submitTan handler named by step reads the
\* failure as "still pending".
SubmitReadsPending(step, reply) ==
    /\ reply.kind = "throw"
    /\ IF step = "submitTanEnhanced"
       THEN isPendingApproval(ErrorMessage(reply.answers))
       ELSE isPendingApprovalBasic(ErrorMessage(reply.answers))

SomeReply(rs, P(_)) == \E i \in 1..Len(rs) : P(rs[i])
EveryReply(rs, P(_)) == \A i \in 1..Len(rs) : P(rs[i])

\* C1: for every pending operation kind, a submitTan whose resumption call
\* fails with a "still pending" signal answers 202 with the same tanReference
\* and leaves session.pending as it was.
C1_StillPendingKeepsPending ==
    [][ ( /\ last' \in SubmitSteps
          /\ SomeReply(replies', LAMBDA r : SubmitReadsPending(last', r)) )
        => ( /\ resp'.status = 202
             /\ resp'.isPending
             /\ resp'.tanReference = req'.tanReference
             /\ session'.pending = session.pending
             /\ session'.pending.set /\ session'.pending.op = req'.op ) ]_vars

\* C2: a submitTan whose resumption call fails with a failure that is not read
\* as "still pending" clears session.pending and answers HTTP 400.
C2_HardFailureClearsPending ==
    [][ ( /\ last' \in SubmitSteps
          /\ SomeReply(replies', LAMBDA r : r.kind = "throw" /\ ~SubmitReadsPending(last', r)) )
        => ( /\ ~session'.pending.set
             /\ resp'.status = 400 ) ]_vars

\* C3: after a submitTan or a pollTanStatus attempt whose resumption call
\* returned, session.pending is unset, and a successful sync result carries the
\* session's current bankingInformation as its data.
C3_SuccessClearsPending ==
    [][ ( /\ last' \in SubmitSteps \cup {"pollReply"}
          /\ replies' # <<>>
          /\ EveryReply(replies', LAMBDA r : r.kind = "ok") )
        => ( /\ ~session'.pending.set
             /\ (req'.op = "sync" /\ replies'[1].success)
                   => /\ session'.bankingInformation.known
                      /\ resp'.data = BankingInformationData(session'.bankingInformation) ) ]_vars

C3_Witness ==
    /\ last = "submitTan" /\ req.op = "sync"
    /\ replies # <<>> /\ replies[1].kind = "ok" /\ replies[1].success
    /\ Len(session.bankingInformation.bankAccounts) = 1
    /\ resp.data.kind = "bankingInformation"
    /\ ~session.pending.set

\* C4 as claimed: whenever session.pending is unset or has another op,
\* submitTan answers "No pending TAN op" (400), calls no BankingClient method
\* and leaves the session as it was; pollTanStatus rejects likewise.
C4_RejectedWithoutPending ==
    [][ /\ ( last' \in SubmitSteps /\ (~session.pending.set \/ session.pending.op # req'.op) )
           => ( /\ resp'.status = 400 /\ resp'.error = MsgNoPendingTanOp
                /\ calls' = <<>> /\ session' = session )
        /\ ( last' = "pollTanStatus" /\ (~session.pending.set \/ session.pending.op # req'.op) )
           => ( /\ resp'.status = 400 /\ resp'.error = MsgNoMatchingPending
                /\ pollPc' = "idle" /\ pollCalls' = <<>> /\ session' = session ) ]_vars

\* C4 amended: the check comes after the session check (and, in
\* pollTanStatus, after the required-field check), whose rejections are 400
\* responses of their own; no rejected request calls the BankingClient or
\* changes the session.
C4_RejectedWithoutPendingAmended ==
    [][ /\ ( last' \in SubmitSteps /\ (~session.pending.set \/ session.pending.op # req'.op) )
           => ( /\ resp'.status = 400
                /\ resp'.error = IF session.client THEN MsgNoPendingTanOp ELSE MsgNoActiveSession
                /\ calls' = <<>> /\ session' = session )
        /\ ( last' = "pollTanStatus" /\ (~session.pending.set \/ session.pending.op # req'.op) )
           => ( /\ resp'.status = 400
                /\ resp'.error = IF ~session.client THEN MsgNoActiveSession
                                 ELSE IF req'.tanReference = "" \/ req'.op = ""
                                 THEN MsgPollFieldsRequired
                                 ELSE MsgNoMatchingPending
                /\ pollPc' = "idle" /\ pollCalls' = <<>> /\ session' = session ) ]_vars

C4_Witness ==
    /\ last = "submitTan" /\ session.client
    /\ session.pending.set /\ session.pending.op = "balance" /\ req.op = "sync"
    /\ resp.error = MsgNoPendingTanOp

\* ------------------------------------------------------- the polling loops
\* What the calls of a poll did so far, as its loop read them.
AllPending(log) == \A i \in 1..Len(log) : log[i].kind = "pending"
PendingThenOk(log) ==
    /\ Len(log) >= 1
    /\ log[Len(log)].kind = "ok"
    /\ \A i \in 1..(Len(log) - 1) : log[i].kind = "pending"

\* A run of handlePushTanWithPolling on a decoupled challenge.
DecoupledRun == tanPc # "none" /\ isDecoupledTanChallenge(tanIn.bankAnswers)

\* Whether a polling loop reads the failure as "still pending".
PollReadsPending(reply) ==
    reply.kind = "throw" /\ isPendingApproval(ErrorMessage(reply.answers))

CancelledOrExpired(reply) ==
    \/ hasBankAnswerCode(reply.answers, DECOUPLED_TAN_CANCELLED)
    \/ hasBankAnswerCode(reply.answers, DECOUPLED_TAN_EXPIRED)

\* C5: a poll whose status calls 1..N-1 fail as "still pending" and whose call
\* N <= maxAttempts succeeds returns that result after exactly N calls, each
\* made with the given tanReference and no TAN, and calls no more; as long as
\* the callback has not cancelled and the time budget is not exceeded, it does
\* not give up before call N.
C5_PollReturnsFirstSuccess ==
    /\ PendingThenOk(pollLog)
          => /\ pollPc = "idle"
             /\ Len(pollCalls) = Len(pollLog)
             /\ Len(pollLog) <= pollReq.maxAttempts
             /\ resp.status = 200 /\ resp.error = <<>>
             /\ resp.success = Flag(replies[1].success)
             /\ \A i \in 1..Len(pollCalls) :
                    /\ pollCalls[i].tanReference = pollReq.tanReference
                    /\ pollCalls[i].tan = ""
    /\ (Len(pollLog) >= 1 /\ AllPending(pollLog) /\ Len(pollLog) < pollReq.maxAttempts)
          => pollPc \in {"sleep", "call"}
    /\ (DecoupledRun /\ PendingThenOk(tanLog))
          => /\ tanPc = "done"
             /\ Len(tanCalls) = Len(tanLog)
             /\ Len(tanLog) <= tanIn.maxAttempts
             /\ tanOut = Resolved(tanReplied[1])
             /\ \A i \in 1..Len(tanCalls) :
                    /\ tanCalls[i].tanReference = tanIn.tanReference
                    /\ tanCalls[i].tan = ""
    /\ (DecoupledRun /\ tanPc = "done" /\ AllPending(tanLog)
          /\ Len(tanLog) < tanIn.maxAttempts)
          => \/ tanOut = Rejected(MsgCancelledByUser)
             \/ tanOut = Rejected(MsgPushTanTimeout) /\ TanTimedOut(tanElapsed, tanIn.timeoutMs)

C5_Witness ==
    /\ last = "pollReply" /\ pollPc = "idle"
    /\ Len(pollLog) = 2 /\ PendingThenOk(pollLog)
    /\ Len(pollCalls) = 2 /\ resp.status = 200

\* C6 as claimed: a poll whose every status call fails as "still pending"
\* makes exactly maxAttempts calls, sleeps exactly maxAttempts - 1 times (never
\* after the final attempt), and then fails with the "approval not received,
\* please check your banking app" error.
C6_AllPendingExhaustsAttempts ==
    /\ pollSleeps <= Len(pollLog)
    /\ tanSleeps <= Len(tanLog)
    /\ (pollPc = "idle" /\ Len(pollLog) >= 1 /\ AllPending(pollLog))
          => /\ Len(pollCalls) = pollReq.maxAttempts
             /\ pollSleeps = pollReq.maxAttempts - 1
             /\ resp.error = MsgPollNotReceived
    /\ (DecoupledRun /\ tanPc = "done" /\ Len(tanLog) >= 1 /\ AllPending(tanLog))
          => /\ Len(tanCalls) = tanIn.maxAttempts
             /\ tanSleeps = tanIn.maxAttempts - 1
             /\ tanOut = Rejected(MsgPushTanNotReceived)

\* C6 amended: the same, unless handlePushTanWithPolling finds its time budget
\* exceeded at the top of an iteration; it then makes no further call and
\* fails with the "PushTAN timeout" error, having slept once after each call.
C6_AllPendingExhaustsAttemptsInTime ==
    /\ pollSleeps <= Len(pollLog)
    /\ tanSleeps <= Len(tanLog)
    /\ (pollPc = "idle" /\ Len(pollLog) >= 1 /\ AllPending(pollLog))
          => /\ Len(pollCalls) = pollReq.maxAttempts
             /\ pollSleeps = pollReq.maxAttempts - 1
             /\ resp.error = MsgPollNotReceived
    /\ (DecoupledRun /\ tanPc = "done" /\ Len(tanLog) >= 1 /\ AllPending(tanLog))
          => \/ /\ Len(tanCalls) = tanIn.maxAttempts
                /\ tanSleeps = tanIn.maxAttempts - 1
                /\ tanOut = Rejected(MsgPushTanNotReceived)
             \/ /\ TanTimedOut(tanElapsed, tanIn.timeoutMs)
                /\ Len(tanCalls) < tanIn.maxAttempts
                /\ tanSleeps = Len(tanCalls)
                /\ tanOut = Rejected(MsgPushTanTimeout)

C6_Witness ==
    /\ last = "pollReply" /\ pollPc = "idle"
    /\ pollReq.maxAttempts = 2 /\ Len(pollLog) = 2 /\ AllPending(pollLog)
    /\ pollSleeps = 1 /\ resp.error = MsgPollNotReceived

\* C7: a poll whose status call k fails with a failure that is not read as
\* "still pending" ends with an error after exactly k calls and no sleep
\* after call k: a cancelled or expired approval is reported as "cancelled or
\* expired", any other failure with the original error; it is never retried.
C7_HardFailureEndsPoll ==
    /\ (last = "pollReply" /\ replies[1].kind = "throw" /\ ~PollReadsPending(replies[1]))
          => /\ pollPc = "idle"
             /\ Len(pollCalls) = Len(pollLog)
             /\ pollSleeps = Len(pollLog) - 1
             /\ resp.status = 400
             /\ CancelledOrExpired(replies[1]) => resp.error = MsgPollCancelledOrExpired
             /\ resp.error # MsgPollCancelledOrExpired
                   => resp.error = MsgPollFailed(ErrorMessage(replies[1].answers))
    /\ (DecoupledRun /\ tanReplied # <<>> /\ tanReplied[1].kind = "throw"
          /\ ~PollReadsPending(tanReplied[1]))
          => /\ tanPc = "done"
             /\ Len(tanCalls) = Len(tanLog)
             /\ tanSleeps = Len(tanLog) - 1
             /\ tanOut.kind = "throw"
             /\ CancelledOrExpired(tanReplied[1]) => tanOut.error = MsgPushTanCancelled
             /\ tanOut.error # MsgPushTanCancelled
                   => tanOut.error = ErrorMessage(tanReplied[1].answers)

C7_Witness ==
    /\ last = "pollReply" /\ pollPc = "idle"
    /\ Len(pollLog) = 2 /\ pollLog[1].kind = "pending"
    /\ replies[1].kind = "throw" /\ CancelledOrExpired(replies[1])
    /\ pollSleeps = 1 /\ resp.error = MsgPollCancelledOrExpired

\* The time budget put to the pollTanStatus handler, whose payload names none.
PollTimeBudget == MaxTimeoutTicks

\* C8: every polling loop checks its time budget independently of the attempt
\* count: once the elapsed time exceeds the budget, no loop starts another
\* status call.
C8_NoCallAfterTimeBudget ==
    /\ DecoupledRun
          => \A i \in 1..Len(tanLog) : ~TanTimedOut(tanLog[i].at, tanIn.timeoutMs)
    /\ \A i \in 1..Len(pollLog) : pollLog[i].at <= PollTimeBudget

\* C9: the polling loops and submitTan treat a failure of the resumption call
\* as "still pending" exactly when the classifier's isDecoupledTanPending
\* holds of the bank answers the failure carries.
C9_PendingExactlyWhenClassified ==
    /\ (last \in SubmitSteps /\ req.op \in {"sync", "balance", "statements"}
          /\ replies # <<>> /\ replies[1].kind = "throw")
          => /\ (resp.status = 202) <=> isDecoupledTanPending(replies[1].answers)
             /\ ~isDecoupledTanPending(replies[1].answers) => ~session.pending.set
    /\ (last = "pollReply" /\ replies[1].kind = "throw")
          => ((pollLog[Len(pollLog)].kind = "pending")
                 <=> isDecoupledTanPending(replies[1].answers))
    /\ (DecoupledRun /\ tanReplied # <<>> /\ tanReplied[1].kind = "throw")
          => ((tanLog[Len(tanLog)].kind = "pending")
                 <=> isDecoupledTanPending(tanReplied[1].answers))

\* C10: a pollTanStatus that runs out of attempts with every attempt still
\* pending answers HTTP 408 and leaves session.pending as it was, so that a
\* later submitTan or pollTanStatus for the same operation is accepted.
C10_ExhaustedPollKeepsPending ==
    [][ ( /\ last' = "pollReply" /\ pollPc' = "idle"
          /\ Len(pollLog') = pollReq'.maxAttempts
          /\ AllPending(pollLog') )
        => ( /\ resp'.status = 408 /\ resp'.isPending
             /\ session'.pending = session.pending
             /\ ~NoPendingTanOp(session', req'.op)
             /\ ~NoMatchingPending(session', req'.op) ) ]_vars

C10_Witness ==
    /\ last = "pollReply" /\ pollPc = "idle"
    /\ resp.status = 408
    /\ Len(pollLog) = 3 /\ AllPending(pollLog)
    /\ session.pending.set /\ session.pending.op = req.op

\* C11: a user cancellation issued while a server-side poll runs is observed
\* by the loop between attempts: after the cancel no further status call is
\* started (at most the one in flight completes), and once the poll has
\* ended the session's pending operation is cleared.
C11_CancelStopsPoll ==
    cancelledAt >= 0
       => /\ Len(pollCalls) <= cancelledAt
          /\ pollPc = "idle" => ~session.pending.set

\* C12: a session never has two polls in flight: while a pollTanStatus request
\* is between its first bank call and its response, a second pollTanStatus or
\* submitTan of the session has no bank call in flight.
C12_OnePollInFlight ==
    ~(pollPc \in {"call", "sleep"} /\ second.pc = "call")

\* C13: when the initial synchronize of startSession returns requiresTan with
\* a tanReference, the response carries requiresTan and that tanReference, and
\* session.pending is a sync pending operation that records that tanReference.
C13_StartSessionRecordsReference ==
    (last = "startSession" /\ replies[1].kind = "ok" /\ replies[1].requiresTan)
       => /\ resp.requiresTan
          /\ resp.tanReference \in TanReferences
          /\ session.pending.set
          /\ session.pending.op = "sync"
          /\ "tanReference" \in DOMAIN session.pending
          /\ session.pending.tanReference = resp.tanReference

C15_BatchSurvivesAnyFailure ==
    ( /\ last \in BatchOps
      /\ calls # <<>>
      /\ ~(replies[1].kind = "ok" /\ replies[1].requiresTan) )
       => /\ resp.status = 200
          /\ resp.success = "true"
          /\ resp.data.kind = "map"
          /\ Len(replies) = Len(Accounts(session)) + 1
          /\ resp.data.keys = BatchKeys(Accounts(session), Tail(replies))

\* The actions that start an operation.
OperationSteps ==
    {"startSession", "synchronize", "getAccountBalance", "getAccountStatements",
     "getAllBalances", "getAllStatements"}

\* C16: when an operation action is processed while an earlier operation is
\* pending, then afterwards the new action was rejected (HTTP 400 before any
\* BankingClient call), or the earlier pending operation was replaced by the
\* new action's challenge, or it is no longer pending.
C16_NewOperationEndsEarlierPending ==
    [][ ( /\ last = "idle"
          /\ last' \in OperationSteps
          /\ session.pending.set )
           => \/ resp'.status = 400 /\ calls' = <<>>
              \/ resp'.requiresTan /\ session'.pending.set
              \/ ~session'.pending.set
      ]_vars

\* C17: a request of any action other than startSession on a session without
\* a BankingClient is answered with HTTP 400 "No active session", calls no
\* BankingClient method and leaves the session (client, config, pending) as
\* it was.
C17_NoActiveSession ==
    [][ ( /\ last = "idle"
          /\ last' \notin {"idle", "startSession"}
          /\ ~session.client )
           => /\ resp'.status = 400
              /\ resp'.error = MsgNoActiveSession
              /\ calls' = <<>>
              /\ pollCalls' = <<>>
              /\ session' = session
      ]_vars

\* A request other than startSession was answered on a session without a
\* BankingClient.
C17_Witness ==
    /\ last \in {"selectTan", "synchronize", "getAccountBalance", "getAllStatements",
                  "submitTan", "handleFinTSRequest"}
    /\ ~session.client
    /\ resp.error = MsgNoActiveSession

\* The actions that request balances or statements.
FetchSteps ==
    {"getAccountBalance", "getAccountStatements", "getAllBalances", "getAllStatements"}

\* C18: a balance or statement request on a session (with a BankingClient)
\* whose banking information holds no accounts is answered with HTTP 400 "No
\* accounts found. Please synchronize first.", calls no BankingClient method
\* and sets no pending operation.
C18_NoAccountsRejected ==
    [][ ( /\ last = "idle"
          /\ last' \in FetchSteps
          /\ session.client
          /\ Len(Accounts(session)) = 0 )
           => /\ resp'.status = 400
              /\ resp'.error = MsgNoAccounts
              /\ calls' = <<>>
              /\ session'.pending = session.pending
      ]_vars

\* C20: a pollTanStatus request on a session that has a BankingClient and a
\* pending operation matching the request's operation is dispatched to the
\* polling handler: handleFinTSRequest does not answer it "Unknown action".
C20_PollTanStatusIsRouted ==
    ( /\ last = "handleFinTSRequest"
      /\ session.client
      /\ ~NoMatchingPending(session, req.op) )
       => resp.error # MsgUnknownAction

\* The value of the request's fints_sid cookie; 0 when it has none.
FintsSidCookie(header) ==
    IF \E i \in 1..Len(header) : header[i][1] = "fints_sid"
    THEN header[CHOOSE i \in 1..Len(header) : header[i][1] = "fints_sid"][2]
    ELSE 0

StillPendingResponse(res) == res.status = 408 /\ res.isPending

\* C21: pollTanStatusAutomatically keeps polling while the server answers that
\* approval is still pending: it ends after a still-pending answer only when
\* that was the answer to request number maxAttempts, and then with the
\* timeout error; and it returns the result of the first successful request.
C21_ClientKeepsPolling ==
    poller.pc \in {"returned", "thrown"}
       => LET n == Len(poller.log) IN
          /\ \A i \in 1..(n - 1) : StillPendingResponse(poller.log[i])
          /\ StillPendingResponse(poller.log[n])
                => /\ n = poller.maxAttempts
                   /\ poller.pc = "thrown"
                   /\ poller.error = MsgPollerTimeout
          /\ poller.log[n].status = 200
                => /\ poller.pc = "returned"
                   /\ poller.result = poller.log[n]

\* The codes of the answers of a list; none for an absent list.
CodesOf(bankAnswers) ==
    IF bankAnswers = undefined THEN {}
    ELSE { bankAnswers[i].code : i \in 1..Len(bankAnswers) }

ExplicitPendingCodes == {3956, 3076, 3072}
FailedCodes == {3077, 3078, 3073}

\* A text that names strong authentication.
StrongAuthPhrase(text) ==
    \/ Includes(text, <<"Starke", "Kundenauthentifizierung">>)
    \/ Includes(text, <<"strong", "authentication">>)

\* The answers of code 3060 in the classified list.
Texts3060 ==
    { classified.bankAnswers[i].text :
        i \in { j \in 1..Len(classified.bankAnswers) : classified.bankAnswers[j].code = 3060 } }

C23_ExplicitPendingCode ==
    ( /\ classified.pc = "classified"
      /\ CodesOf(classified.bankAnswers) \cap ExplicitPendingCodes # {} )
       => classified.pending

\* A list of a general-warnings 3060 answer followed by a 3076 answer was
\* classified as pending.
C23_Witness ==
    /\ classified.pc = "classified"
    /\ Len(classified.bankAnswers) = 2
    /\ classified.bankAnswers[1].code = 3060
    /\ ~Includes(classified.bankAnswers[1].text, <<"erforderlich">>)
    /\ classified.bankAnswers[2].code = 3076
    /\ classified.pending

\* C24: isDecoupledTanChallenge is true exactly when isDecoupledTanPending is
\* true or code 3060 is present; it is false for a list with code 3920 and
\* none of 3060, 3956, 3076, 3072, and for an absent or empty list.
C24_ChallengeIsPendingOr3060 ==
    classified.pc = "classified"
       => /\ classified.challenge
                <=> (classified.pending \/ 3060 \in CodesOf(classified.bankAnswers))
          /\ ( /\ 3920 \in CodesOf(classified.bankAnswers)
               /\ CodesOf(classified.bankAnswers) \cap ({3060} \cup ExplicitPendingCodes) = {} )
                => ~classified.challenge
          /\ classified.bankAnswers \in {undefined, <<>>} => ~classified.challenge

\* A list whose only TAN-related code is 3920 was classified as no decoupled
\* challenge.
C24_Witness ==
    /\ classified.pc = "classified"
    /\ CodesOf(classified.bankAnswers) = {3920, 1234}
    /\ ~classified.challenge

\* C25: for every list with a decoupled-failed code (3077, 3078, 3073),
\* isDecoupledTanFailed is true and getBankErrorMessage returns the failed
\* message, whatever else the list contains; for a list without one that
\* isDecoupledTanPending holds of, it returns the pending message.
C25_FailedBeforePending ==
    classified.pc = "classified"
       => /\ CodesOf(classified.bankAnswers) \cap FailedCodes # {}
                => classified.failed /\ classified.message = MsgBankTanFailed
          /\ ( /\ CodesOf(classified.bankAnswers) \cap FailedCodes = {}
               /\ classified.pending )
                => classified.message = MsgBankTanPending

\* A list of a pending answer followed by a cancelled answer was given the
\* failed message.
C25_Witness ==
    /\ classified.pc = "classified"
    /\ Len(classified.bankAnswers) = 2
    /\ classified.bankAnswers[1].code = 3076
    /\ classified.bankAnswers[2].code = 3077
    /\ classified.message = MsgBankTanFailed

\* The text of the first answer of the classified list whose code is in the
\* error range (>= 9000) or the warning range (3000..3999); null without one.
FirstErrorText ==
    LET a == classified.bankAnswers
        at == IF a = undefined THEN {}
              ELSE { i \in 1..Len(a) : a[i].code >= 9000 \/ a[i].code \in 3000..3999 }
    IN  IF at = {} THEN null ELSE a[CHOOSE i \in at : \A j \in at : i <= j].text

CredentialCodes == {9340, 9942, 9210, 3938, 9900}

\* C26: for a list that is neither decoupled failed nor decoupled pending and
\* has no credential-error code and no invalid-TAN code (9941),
\* getBankErrorMessage returns the text of the first answer in the error or
\* warning range, and null when there is none or the list is empty or absent.
C26_FallbackToFirstErrorText ==
    ( /\ classified.pc = "classified"
      /\ ~classified.failed
      /\ ~classified.pending
      /\ CodesOf(classified.bankAnswers) \cap (CredentialCodes \cup {9941}) = {} )
       => classified.message = FirstErrorText

\* C26, amended: the specific categories are decoupled failed, decoupled
\* pending, invalid PIN (9340), locked (9942, 9210, 3938, 9900) and TAN
\* request received (3955); an invalid-TAN answer is no category of its own.
C26_FallbackToFirstErrorTextAmended ==
    ( /\ classified.pc = "classified"
      /\ ~classified.failed
      /\ ~classified.pending
      /\ CodesOf(classified.bankAnswers) \cap (CredentialCodes \cup {3955}) = {} )
       => classified.message = FirstErrorText

\* A list of a warning followed by an error, of no specific category, was
\* given the text of the warning.
C26_Witness ==
    /\ classified.pc = "classified"
    /\ Len(classified.bankAnswers) = 2
    /\ classified.bankAnswers[1].code = 3050
    /\ classified.bankAnswers[2].code = 9941
    /\ classified.message = classified.bankAnswers[1].text

\* C28: the callback of createAutomaticPushTanCallback returns an empty TAN
\* without cancel, after one call of onPushTanDetected (when it was given
\* one), for every list isDecoupledTanChallenge holds of; for every other
\* list it throws "Manual TAN input required ..." and notifies nobody.
C28_AutomaticCallback ==
    classified.pc = "called"
       => IF 3060 \in CodesOf(classified.bankAnswers)
             \/ isDecoupledTanPending(classified.bankAnswers)
          THEN /\ classified.result.kind = "return"
               /\ classified.result.tan = ""
               /\ ~classified.result.cancel
               /\ classified.result.notified = IF classified.onPushTanDetected THEN 1 ELSE 0
          ELSE /\ classified.result.kind = "throw"
               /\ Includes(classified.result.error, <<"Manual", "TAN", "input", "required">>)
               /\ classified.result.notified = 0

\* The callback threw for the challenge of a manual TAN method.
C28_Witness ==
    /\ classified.pc = "called"
    /\ CodesOf(classified.bankAnswers) = {3920, 1234}
    /\ classified.onPushTanDetected
    /\ classified.result.kind = "throw"

\* Whether the iteration logged as entry retrieved the statements of its
\* account: the fetch delivered them, or it asked for a TAN and the TAN
\* handling delivered them.
StatementsRetrieved(entry) ==
    /\ entry.fetch.kind = "ok"
    /\ IF entry.fetch.requiresTan
       THEN /\ syncAll.tanCallback
            /\ entry.tan.kind = "return"
            /\ entry.tan.reply.success
            /\ entry.tan.reply.hasData
       ELSE entry.fetch.success /\ entry.fetch.hasData

\* C27: syncAllStatements always returns a SyncResult.  Once it has reached
\* its loop, every target account is attempted whatever happened to the
\* accounts before it; success is true exactly when the statements of at
\* least one account were retrieved; every account that failed is named in
\* the error field, which starts with "Partial success" when the result is a
\* success.
C27_SyncAllStatementsResult ==
    syncAll.pc = "done"
       => /\ syncAll.result.returned
          /\ syncAll.targetAccounts = <<>> => ~syncAll.result.success
          /\ syncAll.targetAccounts # <<>>
                => LET n == Len(syncAll.targetAccounts)
                       got == { i \in 1..n : StatementsRetrieved(syncAll.log[i]) }
                   IN
                   /\ Len(syncAll.log) = n
                   /\ syncAll.result.success <=> got # {}
                   /\ syncAll.result.statements = { syncAll.targetAccounts[i] : i \in got }
                   /\ \A i \in (1..n) \ got :
                         Includes(syncAll.result.error, <<"account", syncAll.targetAccounts[i]>>)
                   /\ (got # {} /\ got # 1..n)
                         => SubSeq(syncAll.result.error, 1, 2) = <<"Partial", "success.">>
                   /\ got = 1..n => syncAll.result.error = <<>>

\* syncAllStatements returned a partial success: the first account failed
\* and the statements of the second were retrieved.
C27_Witness ==
    /\ syncAll.pc = "done"
    /\ Len(syncAll.targetAccounts) = 2
    /\ syncAll.result.success
    /\ syncAll.result.statements = {syncAll.targetAccounts[2]}
    /\ syncAll.result.error # <<>>

\* C29: the pending operation of a session is cleared only by the request
\* that resolved its challenge.  When the bank call of a submitTan (or
\* pollTanStatus) completes after a concurrent dispatcher call has replaced
\* the pending operation it was started for by a new one, of another
\* operation, the completion leaves the new pending operation in place.
C29_NewPendingSurvivesEarlierSubmit ==
    [][(/\ second.pc = "call"
        /\ second'.pc = "done"
        /\ session.pending.set
        /\ session.pending.op # second.req.op)
          => session'.pending = session.pending]_vars

\* C30: the tanReference that submitTan and pollTanStatus hand to the
\* BankingClient is the reference that was issued with the challenge the
\* session is pending on; a request that names another reference makes no
\* call with it.
C30_ForwardsIssuedReference ==
    [][/\ (last = "idle" /\ last' = "submitTan")
           => \A i \in 1..Len(calls') : calls'[i].tanReference = issued
       /\ Len(pollCalls') > Len(pollCalls)
           => pollCalls'[Len(pollCalls')].tanReference = issued]_vars

\* C31: whenever the response of a request carries requiresTan: true, be it
\* the result of a dispatcher action or of the resumption call inside
\* submitTan or pollTanStatus, the session holds a pending operation
\* afterwards, so that the challenge can be answered through submitTan.
C31_TanResponseKeepsPending ==
    (last # "idle" /\ resp.status = 200 /\ resp.requiresTan) => session.pending.set

\* C32: a pending operation never outlives the BankingClient that issued its
\* challenge.  After startSession, which installs a new client and config,
\* session.pending is the sync challenge of the new client's initial
\* synchronize when that asked for a TAN, and is unset when the synchronize
\* completed without TAN or failed.
C32_PendingBelongsToNewClient ==
    last = "startSession"
       => IF replies[1].kind = "ok" /\ replies[1].requiresTan
          THEN session.pending = Pending("sync", "")
          ELSE ~session.pending.set

ActingSessions == { sid \in SessionIds : inflight'[sid] # inflight[sid] }

\* C33: an action processed for one session leaves the client, config and
\* pending operation of every other session as they were, however the
\* requests of different sessions interleave.
C33_OtherSessionsUnchanged ==
    [][\A other \in DOMAIN sessions \ ActingSessions :
          /\ other \in DOMAIN sessions'
          /\ sessions'[other] = sessions[other]]_vars

\* A request completed and changed its session while the request of another
\* session, which holds a pending operation, is still in flight.
C33_Witness ==
    /\ last = "requestCompletes"
    /\ \E id \in DOMAIN sessions :
          /\ inflight[id] # NoFlight
          /\ sessions[id].pending.set
          /\ \E sid \in DOMAIN sessions \ {id} :
                sessions[sid].client /\ ~sessions[sid].pending.set

\* C35: a batch action (getAllBalances, getAllStatements) that completes
\* without a TAN requirement has called the BankingClient's fetch exactly
\* once for each known account, in the order of the account list.
C35_BatchFetchesEachAccountOnce ==
    (last \in BatchOps /\ resp.status = 200 /\ ~resp.requiresTan)
       => calls = [i \in 1..Len(Accounts(session)) |->
                      AccountCall(AccountMethod(last), Accounts(session)[i])]

\* C36: every poll terminates.  When each bank call, callback and sleep
\* returns, handlePushTanWithPolling and the pollTanStatus handler leave the
\* polling state for a terminal outcome (a response, a resolved or a rejected
\* promise), and neither makes more than maxAttempts bank calls, whatever
\* the bank replies.
C36_EveryPollTerminates ==
    /\ [](Len(pollCalls) <= pollReq.maxAttempts)
    /\ [](tanPc # "none" => Len(tanCalls) <= tanIn.maxAttempts)
    /\ []((pollPc = "idle" /\ last \in {"pollTanStatus", "pollReply", "pollSleep"})
             => resp.status # 0)
    /\ [](tanPc = "done" => tanOut # NotSettled)
    /\ (pollPc # "idle" \/ tanPc \in {"callback", "call", "sleep"})
          ~> (pollPc = "idle" /\ tanPc \in {"none", "done"})

\* A poll of more than one attempt has ended after its last attempt was
\* answered "still pending".
C36_Witness ==
    /\ pollPc = "idle"
    /\ last \in {"pollReply", "pollSleep"}
    /\ pollReq.maxAttempts > 1
    /\ Len(pollCalls) = pollReq.maxAttempts
    /\ resp = PollTimeoutResponse

\* C37: when the TAN callback returns cancel: true, handlePushTanWithPolling
\* fails with "TAN authentication cancelled by user" and calls the resumption
\* function not once, for decoupled and for manual challenges.
C37_CancelMakesNoCall ==
    (tanPc # "none" /\ tanIn.tanResult.returned /\ tanIn.tanResult.cancel)
       => /\ tanPc = "done"
          /\ tanOut = Rejected(MsgCancelledByUser)
          /\ tanCalls = <<>>
          /\ tanSleeps = 0

\* The callback cancelled a decoupled challenge.
C37_Witness ==
    /\ tanPc = "done"
    /\ tanIn.tanResult.cancel
    /\ isDecoupledTanChallenge(tanIn.bankAnswers)
    /\ tanOut.kind = "throw"

\* What handlePushTanWithPolling does with a manual challenge once it is
\* done: one call of the resumption function, with the tanReference of the
\* challenge and the TAN of the callback, whose result it returns and whose
\* error it throws as it is.
ManualRunSubmittedOnce ==
    /\ tanCalls = <<Call("submitTanFn", tanIn.tanReference, tanIn.tanResult.tan)>>
    /\ tanOut = IF tanReplied[1].kind = "ok"
                THEN Resolved(tanReplied[1])
                ELSE Rejected(ErrorMessage(tanReplied[1].answers))

C39_BlockedPinStopsSync ==
    (/\ syncAll.pc # "none"
     /\ \E i \in 1..Len(syncAll.bankAnswers) : syncAll.bankAnswers[i].code \in {3938, 9900})
       => /\ syncAll.pc = "done"
          /\ syncAll.result.returned
          /\ ~syncAll.result.success
          /\ SubSeq(syncAll.result.error, 1, 2) = <<"Authentication", "failed:">>
          /\ syncAll.calls = <<"synchronize">>
          /\ syncAll.log = <<>>

\* The initial synchronize reported 9900 after another answer, and
\* syncAllStatements returned the authentication failure.
C39_Witness ==
    /\ syncAll.pc = "done"
    /\ Len(syncAll.bankAnswers) = 2
    /\ syncAll.bankAnswers[2].code = 9900
    /\ syncAll.result.returned
    /\ Includes(syncAll.result.error, <<"PIN", "is", "blocked", "or", "login", "failed">>)

\* The methods the claim lets settle a promise.
TanSettlers == {"submitTan", "cancelTan", "clearAll", "timeout"}

\* C40: every promise of requestTan is settled exactly once, by whichever of
\* submitTan, cancelTan, clearAll or the timeout comes first, and its entry
\* leaves the queue at that moment; a submitTan or cancelTan that names an
\* unknown or an already settled request returns false and changes nothing,
\* also with several requests outstanding.
C40_PromiseSettledOnce ==
    /\ [](\A id \in DOMAIN tanQueue.promises :
             /\ id \in tanQueue.queue <=> tanQueue.promises[id] = <<>>
             /\ Len(tanQueue.promises[id]) <= 1
             /\ tanQueue.promises[id] # <<>> => tanQueue.promises[id][1].by \in TanSettlers)
    /\ [][LET r == tanQueue'.returned IN
            (/\ r.op \in {"submitTan", "cancelTan"}
             /\ \/ r.requestId \notin DOMAIN tanQueue.promises
                \/ tanQueue.promises[r.requestId] # <<>>)
               => /\ r.value = FALSE
                  /\ tanQueue'.queue = tanQueue.queue
                  /\ tanQueue'.promises = tanQueue.promises]_vars

====
